---- MODULE Spec2Model ----
(***************************************************************************)
(* Ethernet3: WIZnet W5500 socket layer (chips/utility/socket.cpp), the     *)
(* chip register interface it drives (chips/w5500.cpp, chips/neww5500.h)    *)
(* and the Client / Server / UDP facades built on it.                       *)
(*                                                                          *)
(* The program is single threaded.  A blocking call (connect, stop, send)   *)
(* is a sequence of steps, one per poll of a chip register; between two     *)
(* polls the chip and the peer may move.  The variable pc holds the         *)
(* position of the call in progress ("idle" when none).                     *)
(***************************************************************************)
EXTENDS Integers, Sequences, FiniteSets, TLC

\* ------------------------------------------------------------------------
\* Program constants
\* ------------------------------------------------------------------------
MAX_SOCK_NUM == 8
\* chip->SSIZE read through an EthernetChip*: the base class member
ChipSSIZE == 0
\* W5500::SSIZE, the size of one socket's TX buffer
W5500_SSIZE == 2048
\* the while condition of EthernetClient::stop: millis() - start < 1000
StopTimeout == 1000
\* initial value of EthernetClient::_srcport
SrcPortInit == 1024

U8 == 256
U16 == 65536

\* ------------------------------------------------------------------------
\* Bounds of the model
\* ------------------------------------------------------------------------
\* facade calls made by the application in one run
MaxOps == 3
\* bytes the peers deliver in one run
MaxArrive == 2
\* incoming connections the peers open in one run
MaxPeerConn == 1
\* milliseconds one pass of the wait loop of stop() takes (delay(1) and
\* the register reads around it)
Tick == 400

Sockets == 0 .. (MAX_SOCK_NUM - 1)

\* the facades of the application
OutClients == {"c1", "c2"}
Clients == OutClients \cup {"a1"}

\* Sn_SR values (class SnSR)
CLOSED == "CLOSED"
INIT == "INIT"
LISTEN == "LISTEN"
SYNSENT == "SYNSENT"
ESTABLISHED == "ESTABLISHED"
FIN_WAIT == "FIN_WAIT"
CLOSE_WAIT == "CLOSE_WAIT"
LAST_ACK == "LAST_ACK"
SR_UDP == "UDP"

\* Sn_MR protocol values (class SnMR)
SnMR_CLOSE == 0
SnMR_TCP == 1
SnMR_UDP == 2
SnMR_IPRAW == 3
SnMR_MACRAW == 4
SnMR_PPPOE == 5
SnMR_MULTI == 128

\* Sn_IR bits (class SnIR), an interrupt register is the set of bits raised
SEND_OK == "SEND_OK"
TIMEOUT == "TIMEOUT"
IR_RECV == "RECV"
IR_DISCON == "DISCON"
IR_CON == "CON"
IR_ALL == {SEND_OK, TIMEOUT, IR_RECV, IR_DISCON, IR_CON}

\* destinations the application passes to connect
IP_BCAST == <<255, 255, 255, 255>>
IP_ZERO == <<0, 0, 0, 0>>
IP_PEER == <<10, 0, 0, 7>>
IP_PART == <<255, 255, 255, 0>>
DestIPs == {IP_BCAST, IP_ZERO, IP_PEER, IP_PART}
DestPorts == {0, 80}
ServerPort == 80

Min(a, b) == IF a < b THEN a ELSE b

\* ------------------------------------------------------------------------
\* The chip: per socket register block and buffers.  A chip state ch is a
\* record of functions over Sockets; log is the sequence of commands and
\* register writes the host has made since the current facade call began.
\* ------------------------------------------------------------------------
ChipInit ==
    [sr      |-> [s \in Sockets |-> CLOSED],
     mr      |-> [s \in Sockets |-> 0],
     port    |-> [s \in Sockets |-> 0],
     dest    |-> [s \in Sockets |-> <<IP_ZERO, 0>>],
     ir      |-> [s \in Sockets |-> {}],
     tx_wr   |-> [s \in Sockets |-> 0],
     tx_fsr  |-> [s \in Sockets |-> W5500_SSIZE],
     tx_pend |-> [s \in Sockets |-> FALSE],
     rx_rd   |-> [s \in Sockets |-> 0],
     rx_base |-> [s \in Sockets |-> 0],
     rxq     |-> [s \in Sockets |-> <<>>],
     tx_data |-> [s \in Sockets |-> <<>>],
     tx_sent |-> [s \in Sockets |-> <<>>],
     log     |-> <<>>]

\* W5500::readSn / writeSn: the socket number goes into the upper 3 bits of
\* the 8-bit control byte, (_s << 5) + 0x08
Sn(s) == ((s * 32) % U8) \div 32

Logged(ch, kind, s, what) == [ch EXCEPT !.log = Append(@, <<kind, Sn(s), what>>)]

readSnSR(ch, s) == ch.sr[Sn(s)]
readSnIR(ch, s) == ch.ir[Sn(s)]
readSnTX_WR(ch, s) == ch.tx_wr[Sn(s)]
readSnRX_RD(ch, s) == ch.rx_rd[Sn(s)]

writeSnMR(ch, s, v) == [Logged(ch, "wr", s, "MR") EXCEPT !.mr[Sn(s)] = v % U8]
writeSnPORT(ch, s, v) == [Logged(ch, "wr", s, "PORT") EXCEPT !.port[Sn(s)] = v % U16]
\* Sn_IR is write-1-to-clear
writeSnIR(ch, s, bits) == [Logged(ch, "wr", s, "IR") EXCEPT !.ir[Sn(s)] = @ \ bits]
writeSnDIPR(ch, s, ip) == [Logged(ch, "wr", s, "DIPR") EXCEPT !.dest[Sn(s)] = <<ip, @[2]>>]
writeSnDPORT(ch, s, p) == [Logged(ch, "wr", s, "DPORT") EXCEPT !.dest[Sn(s)] = <<@[1], p>>]
writeSnTX_WR(ch, s, v) == [Logged(ch, "wr", s, "TX_WR") EXCEPT !.tx_wr[Sn(s)] = v % U16]
writeSnRX_RD(ch, s, v) == [Logged(ch, "wr", s, "RX_RD") EXCEPT !.rx_rd[Sn(s)] = v % U16]

\* W5500::getTXFreeSize / getRXReceivedSize: the stable value of the register
getTXFreeSize(ch, s) == ch.tx_fsr[Sn(s)]
getRXReceivedSize(ch, s) == Len(ch.rxq[Sn(s)])

\* What the chip does with a command written to Sn_CR
StatusAfterOpen(mode) ==
    LET p == mode % 16
    IN  IF p = SnMR_TCP THEN INIT
        ELSE IF p = SnMR_UDP THEN SR_UDP
        ELSE IF p = SnMR_IPRAW THEN "IPRAW"
        ELSE IF p = SnMR_MACRAW THEN "MACRAW"
        ELSE IF p = SnMR_PPPOE THEN "PPPOE"
        ELSE CLOSED

ChipCommand(ch, s, cmd) ==
    LET n == Sn(s)
    IN  CASE cmd = "OPEN" ->
                [ch EXCEPT !.sr[n] = StatusAfterOpen(ch.mr[n]),
                           !.tx_wr[n] = 0, !.tx_fsr[n] = W5500_SSIZE,
                           !.tx_pend[n] = FALSE,
                           !.tx_data[n] = <<>>, !.tx_sent[n] = <<>>,
                           !.rx_rd[n] = 0, !.rx_base[n] = 0, !.rxq[n] = <<>>]
          [] cmd = "LISTEN" ->
                IF ch.sr[n] = INIT THEN [ch EXCEPT !.sr[n] = LISTEN] ELSE ch
          [] cmd = "CONNECT" ->
                IF ch.sr[n] = INIT THEN [ch EXCEPT !.sr[n] = SYNSENT] ELSE ch
          [] cmd = "DISCON" ->
                IF ch.sr[n] = ESTABLISHED THEN [ch EXCEPT !.sr[n] = FIN_WAIT]
                ELSE IF ch.sr[n] = CLOSE_WAIT THEN [ch EXCEPT !.sr[n] = LAST_ACK]
                ELSE ch
          [] cmd = "CLOSE" ->
                [ch EXCEPT !.sr[n] = CLOSED, !.tx_pend[n] = FALSE]
          [] cmd = "SEND" ->
                [ch EXCEPT !.tx_pend[n] = TRUE,
                           !.tx_sent[n] = ch.tx_data[n], !.tx_data[n] = <<>>]
          [] cmd = "RECV" ->
                LET used == (ch.rx_rd[n] - ch.rx_base[n] + U16) % U16
                    k == Min(used, Len(ch.rxq[n]))
                IN  [ch EXCEPT !.rxq[n] = SubSeq(@, k + 1, Len(@)),
                               !.rx_base[n] = ch.rx_rd[n]]
          [] OTHER -> ch

\* W5500::execCmdSn: write Sn_CR, wait until the chip has taken the command
execCmdSn(ch, s, cmd) == ChipCommand(Logged(ch, "cmd", s, cmd), s, cmd)

\* W5500::write(ptr, cntl_byte, data, len) into the TX buffer of socket s:
\* tx_data collects the <<pointer, length>> of the pieces written since the
\* last SEND, the SEND command hands them to the chip (tx_sent)
writeTxBuf(ch, s, ptr, len) ==
    [ch EXCEPT !.tx_data[Sn(s)] = Append(@, <<ptr % U16, len>>)]

\* W5500::send_data_processing_offset
send_data_processing_offset(ch, s, data_offset, len) ==
    LET ptr == (readSnTX_WR(ch, s) + data_offset) % U16
    IN  writeSnTX_WR(writeTxBuf(ch, s, ptr, len), s, (ptr + len) % U16)

\* send_data_processing with an offset of one byte
send_data_processing_Mut(ch, s, len) == send_data_processing_offset(ch, s, 1, len)

\* W5500::send_data_processing
send_data_processing(ch, s, len) == send_data_processing_offset(ch, s, 0, len)

\* value read for a pointer outside the unread data: stale buffer memory
Stale == -1

\* W5500::read_data: len bytes of the RX buffer of socket s from pointer src
read_data(ch, s, src, len) ==
    LET n == Sn(s)
        off == (src - ch.rx_base[n] + U16) % U16
    IN  [i \in 1 .. len |->
            IF off + i <= Len(ch.rxq[n]) THEN ch.rxq[n][off + i] ELSE Stale]

\* W5500::recv_data_processing: the bytes copied and the chip afterwards
recv_data_processing(ch, s, len, peekOnly) ==
    LET ptr == readSnRX_RD(ch, s)
    IN  [data |-> read_data(ch, s, ptr, len),
         ch   |-> IF peekOnly THEN ch ELSE writeSnRX_RD(ch, s, (ptr + len) % U16)]

\* ------------------------------------------------------------------------
\* Socket protocol layer (chips/utility/socket.cpp)
\* ------------------------------------------------------------------------
RECURSIVE BitOr(_, _)
BitOr(a, b) ==
    IF a = 0 THEN b
    ELSE IF b = 0 THEN a
    ELSE (IF (a % 2 = 1) \/ (b % 2 = 1) THEN 1 ELSE 0) + 2 * BitOr(a \div 2, b \div 2)

\* close(chip, s)
close(ch, s) == writeSnIR(execCmdSn(ch, s, "CLOSE"), s, IR_ALL)

ValidProtocol(protocol) ==
    protocol \in {SnMR_TCP, SnMR_UDP, SnMR_IPRAW, SnMR_MACRAW, SnMR_PPPOE}

\* socket() without the close() of line 18
socket_Mut(ch, lp, s, protocol, port, flag) ==
    IF ValidProtocol(protocol)
    THEN LET c1 == writeSnMR(ch, s, BitOr(protocol, flag))
             lp1 == IF port # 0 THEN lp ELSE (lp + 1) % U16
             c2 == writeSnPORT(c1, s, IF port # 0 THEN port ELSE lp1)
         IN  [ch |-> execCmdSn(c2, s, "OPEN"), lp |-> lp1, ret |-> 1]
    ELSE [ch |-> ch, lp |-> lp, ret |-> 0]

\* socket(chip, s, protocol, port, flag); lp is the static local_port
socket(ch, lp, s, protocol, port, flag) ==
    IF ValidProtocol(protocol)
    THEN LET c1 == writeSnMR(close(ch, s), s, BitOr(protocol, flag))
             lp1 == IF port # 0 THEN lp ELSE (lp + 1) % U16
             c2 == writeSnPORT(c1, s, IF port # 0 THEN port ELSE lp1)
         IN  [ch |-> execCmdSn(c2, s, "OPEN"), lp |-> lp1, ret |-> 1]
    ELSE [ch |-> ch, lp |-> lp, ret |-> 0]

\* listen(chip, s) without the status test of line 51
listen_Mut(ch, s) == [ch |-> execCmdSn(ch, s, "LISTEN"), ret |-> 1]

\* listen(chip, s)
listen(ch, s) ==
    IF readSnSR(ch, s) # INIT
    THEN [ch |-> ch, ret |-> 0]
    ELSE [ch |-> execCmdSn(ch, s, "LISTEN"), ret |-> 1]

\* the destination test of connect(chip, s, addr, port)
RejectedDest(addr, port) ==
    \/ addr = IP_BCAST
    \/ addr = IP_ZERO
    \/ port = 0

\* connect(chip, s, addr, port)
connect(ch, s, addr, port) ==
    IF RejectedDest(addr, port)
    THEN [ch |-> ch, ret |-> 0]
    ELSE [ch |-> execCmdSn(writeSnDPORT(writeSnDIPR(ch, s, addr), s, port), s, "CONNECT"),
          ret |-> 1]

\* disconnect(chip, s)
disconnect(ch, s) == execCmdSn(ch, s, "DISCON")

\* send(chip, s, buf, len), lines 92-95: the length send will try to write
sendClamp(len) == IF len > ChipSSIZE THEN ChipSSIZE ELSE len

\* recv without the clamp of lines 143-144
recv_Mut(ch, s, len) ==
    LET r == getRXReceivedSize(ch, s)
        status == readSnSR(ch, s)
        ret == IF r = 0
               THEN (IF status \in {LISTEN, CLOSED, CLOSE_WAIT} THEN 0 ELSE -1)
               ELSE r
    IN  IF ret > 0
        THEN LET p == recv_data_processing(ch, s, ret, FALSE)
             IN  [ret |-> ret, data |-> p.data, ch |-> execCmdSn(p.ch, s, "RECV")]
        ELSE [ret |-> ret, data |-> <<>>, ch |-> ch]

\* recv(chip, s, buf, len): value returned, bytes copied, chip afterwards.
\* len is an int16_t
recv(ch, s, len) ==
    LET r == getRXReceivedSize(ch, s)
        status == readSnSR(ch, s)
        ret == IF r = 0
               THEN (IF status \in {LISTEN, CLOSED, CLOSE_WAIT} THEN 0 ELSE -1)
               ELSE IF r > len THEN len ELSE r
    IN  IF ret > 0
        THEN LET p == recv_data_processing(ch, s, ret, FALSE)
             IN  [ret |-> ret, data |-> p.data, ch |-> execCmdSn(p.ch, s, "RECV")]
        ELSE [ret |-> ret, data |-> <<>>, ch |-> ch]

\* peek going through recv_data_processing with peek = 0
peek_Mut(ch, s) == recv_data_processing(ch, s, 1, FALSE)

\* peek(chip, s, buf): the byte copied and the chip afterwards
peek(ch, s) == recv_data_processing(ch, s, 1, TRUE)

\* ------------------------------------------------------------------------
\* State
\* ------------------------------------------------------------------------
VARIABLES
    chip,          \* the W5500: registers and buffers of every socket
    local_port,    \* static local_port of socket.cpp
    srcport,       \* static EthernetClient::_srcport
    server_port,   \* EthernetClass::_server_port[]
    sock,          \* EthernetClient::_sock of every client object
    werr,          \* the write error flag (Print::setWriteError) of every client
    udp,           \* the EthernetUDP object: _sock, _port, _remaining, _offset
    pc,            \* position of the facade call in progress, "idle" if none
    cur,           \* locals of the call in progress
    ret,           \* the call that returned in the last step, and its result
    nops,          \* facade calls made so far
    narr,          \* bytes delivered by peers so far
    nconn          \* incoming connections opened by peers so far

vars == <<chip, local_port, srcport, server_port, sock, werr, udp, pc, cur, ret,
          nops, narr, nconn>>

\* ret: n the number of the call, op and who the method and the object, val
\* the value returned, s the socket index the call worked on, arg its
\* arguments, data what it copied or measured, last the call that returned
\* immediately before it (op, object, value; "none" if the chip moved or a
\* blocking call ran in between)
NoCall == [n |-> 0, op |-> "none", who |-> "none", val |-> 0, s |-> MAX_SOCK_NUM,
           arg |-> <<>>, data |-> <<>>, last |-> <<"none", "none", 0>>]

NoLocals == [who |-> "none", caller |-> "none", s |-> MAX_SOCK_NUM, arg |-> <<>>,
             sret |-> 0, i |-> 0, start |-> <<0, 0>>, now |-> <<0, 0>>, waited |-> 0,
             listening |-> FALSE, n |-> 0, written |-> <<>>]

Returned(op, who, val, s, arg, data) ==
    [n |-> nops + 1, op |-> op, who |-> who, val |-> val, s |-> s,
     arg |-> arg, data |-> data, last |-> <<ret.op, ret.who, ret.val>>]

\* the EthernetUDP object after construction; wr0 and writes record the
\* packet being composed: TX_WR at the beginPacket() that opened it (NoPacket
\* when none is open) and the lengths written since
NoPacket == -1

UdpInit == [sock |-> MAX_SOCK_NUM, port |-> 0, remaining |-> 0, offset |-> 0,
            remoteIP |-> IP_ZERO, remotePort |-> 0, wr0 |-> NoPacket, writes |-> <<>>]

Init ==
    /\ chip = ChipInit
    /\ local_port = 0
    /\ srcport = SrcPortInit
    /\ server_port = [s \in Sockets |-> 0]
    /\ sock = [c \in Clients |-> MAX_SOCK_NUM]
    /\ werr = [c \in Clients |-> FALSE]
    /\ udp = UdpInit
    /\ pc = "idle"
    /\ cur = NoLocals
    /\ ret = NoCall
    /\ nops = 0
    /\ narr = 0
    /\ nconn = 0

\* a facade call begins: the application is between calls
CallBegins ==
    /\ pc = "idle"
    /\ nops < MaxOps
    /\ nops' = nops + 1

Fresh == [chip EXCEPT !.log = <<>>]

\* EthernetClient::status() of a client object holding socket index s
status(ch, s) == IF s = MAX_SOCK_NUM THEN CLOSED ELSE readSnSR(ch, s)

\* EthernetClient::available() of a client object holding socket index s
available(ch, s) == IF s # MAX_SOCK_NUM THEN getRXReceivedSize(ch, s) ELSE 0

\* ------------------------------------------------------------------------
\* EthernetClient::connect(IPAddress, uint16_t)
\* ------------------------------------------------------------------------
\* the scan of lines 86-92 taking a listening socket for a free one
ConnectScan_Mut(ch) ==
    LET free == {i \in Sockets :
                   readSnSR(ch, i) \in {CLOSED, FIN_WAIT, CLOSE_WAIT, LISTEN}}
    IN  IF free = {} THEN MAX_SOCK_NUM
        ELSE CHOOSE i \in free : \A j \in free : i <= j

\* the scan of lines 86-92: the socket connect takes, MAX_SOCK_NUM if none
ConnectScan(ch) ==
    LET free == {i \in Sockets : readSnSR(ch, i) \in {CLOSED, FIN_WAIT, CLOSE_WAIT}}
    IN  IF free = {} THEN MAX_SOCK_NUM
        ELSE CHOOSE i \in free : \A j \in free : i <= j

\* lines 96-97
\* lines 96-97 without the test for 0
NextSrcPort_Mut(p) == (p + 1) % U16

NextSrcPort(p) == IF (p + 1) % U16 = 0 THEN 1024 ELSE (p + 1) % U16

\* lines 84-103: up to the wait loop
EthernetClient_connect(c, ip, port) ==
    /\ CallBegins
    /\ LET s == ConnectScan(Fresh)
           sp == NextSrcPort(srcport)
           o == socket(Fresh, local_port, s, SnMR_TCP, sp, 0)
           k == connect(o.ch, s, ip, port)
       IN  IF sock[c] # MAX_SOCK_NUM \/ s = MAX_SOCK_NUM
           THEN /\ chip' = Fresh
                /\ ret' = Returned("connect", c, 0, sock[c], <<ip, port, sock[c]>>, <<>>)
                /\ UNCHANGED <<local_port, srcport, sock, pc, cur>>
           ELSE /\ chip' = k.ch
                /\ local_port' = o.lp
                /\ srcport' = sp
                /\ IF k.ret = 0
                   THEN /\ sock' = [sock EXCEPT ![c] = MAX_SOCK_NUM]
                        /\ ret' = Returned("connect", c, 0, s, <<ip, port, sock[c]>>, <<>>)
                        /\ UNCHANGED <<pc, cur>>
                   ELSE /\ sock' = [sock EXCEPT ![c] = s]
                        /\ pc' = "connect_while"
                        /\ cur' = [NoLocals EXCEPT !.who = c, !.caller = "app", !.s = s,
                                                  !.arg = <<ip, port, sock[c]>>]
                        /\ ret' = NoCall
    /\ UNCHANGED <<server_port, werr, udp, narr, nconn>>

\* line 105: while (status() != SnSR::ESTABLISHED)
ConnectWhile ==
    /\ pc = "connect_while"
    /\ IF status(chip, sock[cur.who]) = ESTABLISHED
       THEN /\ pc' = "idle"
            /\ cur' = NoLocals
            /\ ret' = [Returned("connect", cur.who, 1, cur.s, cur.arg, <<>>) EXCEPT !.n = nops]
       ELSE /\ pc' = "connect_if"
            /\ UNCHANGED <<cur, ret>>
    /\ UNCHANGED <<chip, local_port, srcport, server_port, sock, werr, udp,
                   nops, narr, nconn>>

\* ConnectIf with the test of line 107 taken for "not ESTABLISHED"
ConnectIf_Mut ==
    /\ pc = "connect_if"
    /\ IF status(chip, sock[cur.who]) # ESTABLISHED
       THEN /\ sock' = [sock EXCEPT ![cur.who] = MAX_SOCK_NUM]
            /\ pc' = "idle"
            /\ cur' = NoLocals
            /\ ret' = [Returned("connect", cur.who, 0, cur.s, cur.arg, <<>>) EXCEPT !.n = nops]
       ELSE /\ pc' = "connect_while"
            /\ UNCHANGED <<sock, cur, ret>>
    /\ UNCHANGED <<chip, local_port, srcport, server_port, werr, udp,
                   nops, narr, nconn>>

\* lines 106-110: delay(1); if (status() == SnSR::CLOSED) ...
ConnectIf ==
    /\ pc = "connect_if"
    /\ IF status(chip, sock[cur.who]) = CLOSED
       THEN /\ sock' = [sock EXCEPT ![cur.who] = MAX_SOCK_NUM]
            /\ pc' = "idle"
            /\ cur' = NoLocals
            /\ ret' = [Returned("connect", cur.who, 0, cur.s, cur.arg, <<>>) EXCEPT !.n = nops]
       ELSE /\ pc' = "connect_while"
            /\ UNCHANGED <<sock, cur, ret>>
    /\ UNCHANGED <<chip, local_port, srcport, server_port, werr, udp,
                   nops, narr, nconn>>

\* ------------------------------------------------------------------------
\* EthernetClient::stop()
\* ------------------------------------------------------------------------
\* millis() is an unsigned long of 32 bits: a time is the pair <<high 16 bits,
\* low 16 bits>>
Millis(hi, lo) == <<hi, lo>>

\* values millis() may have when stop() is called
StartTimes == {Millis(0, 5), Millis(U16 - 1, U16 - 600)}

\* the clock d milliseconds later
AddMs(t, d) == Millis((t[1] + ((t[2] + d) \div U16)) % U16, (t[2] + d) % U16)

\* millis() - start < limit with the difference taken as a signed number
ElapsedLess_Mut(now, start, limit) ==
    \/ now[1] < start[1]
    \/ now[1] = start[1] /\ now[2] - start[2] < limit
    \/ now[1] = start[1] + 1 /\ U16 + now[2] - start[2] < limit

\* millis() - start < limit, the subtraction in unsigned long (limit < 2^16)
ElapsedLess(now, start, limit) ==
    LET borrow == IF now[2] < start[2] THEN 1 ELSE 0
        dlo == (now[2] - start[2] + U16) % U16
        dhi == (now[1] - start[1] - borrow + 2 * U16) % U16
    IN  dhi = 0 /\ dlo < limit

\* lines 216-220
EthernetClient_stop(c) ==
    /\ CallBegins
    /\ IF sock[c] = MAX_SOCK_NUM
       THEN /\ chip' = Fresh
            /\ ret' = Returned("stop", c, 0, MAX_SOCK_NUM, <<>>, <<>>)
            /\ UNCHANGED <<pc, cur>>
       ELSE /\ chip' = disconnect(Fresh, sock[c])
            /\ \E t \in StartTimes :
                 cur' = [NoLocals EXCEPT !.who = c, !.caller = "app", !.s = sock[c],
                                         !.start = t, !.now = t]
            /\ pc' = "stop_while"
            /\ ret' = NoCall
    /\ UNCHANGED <<local_port, srcport, server_port, sock, werr, udp, narr, nconn>>

\* line 223: while (status() != SnSR::CLOSED && millis() - start < 1000) delay(1);
StopWhile ==
    /\ pc = "stop_while"
    /\ IF status(chip, cur.s) # CLOSED /\ ElapsedLess(cur.now, cur.start, StopTimeout)
       THEN /\ cur' = [cur EXCEPT !.now = AddMs(@, Tick), !.waited = @ + Tick]
            /\ pc' = pc
       ELSE /\ pc' = "stop_if"
            /\ cur' = cur
    /\ ret' = NoCall
    /\ UNCHANGED <<chip, local_port, srcport, server_port, sock, werr, udp,
                   nops, narr, nconn>>

\* StopIf without the forced close of line 226
StopIf_Mut ==
    /\ pc = "stop_if"
    /\ cur.caller = "app"
    /\ chip' = chip
    /\ server_port' = [server_port EXCEPT ![cur.s] = 0]
    /\ sock' = [sock EXCEPT ![cur.who] = MAX_SOCK_NUM]
    /\ pc' = "idle"
    /\ cur' = NoLocals
    /\ ret' = [Returned("stop", cur.who, 0, cur.s, <<>>,
                        <<cur.waited, status(chip, cur.s), cur.start>>) EXCEPT !.n = nops]
    /\ UNCHANGED <<local_port, srcport, werr, udp, nops, narr, nconn>>

\* lines 226-229, for the client object of the application
StopIf ==
    /\ pc = "stop_if"
    /\ cur.caller = "app"
    /\ chip' = IF status(chip, cur.s) # CLOSED THEN close(chip, cur.s) ELSE chip
    /\ server_port' = [server_port EXCEPT ![cur.s] = 0]
    /\ sock' = [sock EXCEPT ![cur.who] = MAX_SOCK_NUM]
    /\ pc' = "idle"
    /\ cur' = NoLocals
    /\ ret' = [Returned("stop", cur.who, 0, cur.s, <<>>,
                        <<cur.waited, status(chip, cur.s), cur.start>>) EXCEPT !.n = nops]
    /\ UNCHANGED <<local_port, srcport, werr, udp, nops, narr, nconn>>

\* ------------------------------------------------------------------------
\* EthernetClient::write(buf, size) and send(chip, s, buf, len)
\* ------------------------------------------------------------------------
WriteSizes == {0, 1, W5500_SSIZE, 3000}

\* EthernetClient_write without the setWriteError() of line 136
EthernetClient_write_Mut(c, size) ==
    /\ CallBegins
    /\ IF sock[c] = MAX_SOCK_NUM
       THEN /\ ret' = Returned("write", c, 0, MAX_SOCK_NUM, <<size>>, <<>>)
            /\ UNCHANGED <<pc, cur, werr>>
       ELSE /\ pc' = "send_free"
            /\ cur' = [NoLocals EXCEPT !.who = c, !.caller = "write", !.s = sock[c],
                                      !.arg = <<size>>, !.sret = sendClamp(size % U16),
                                      !.i = readSnTX_WR(chip, sock[c])]
            /\ ret' = NoCall
            /\ UNCHANGED werr
    /\ chip' = Fresh
    /\ UNCHANGED <<local_port, srcport, server_port, sock, udp, narr, nconn>>

\* lines 135-139, entering send()
EthernetClient_write(c, size) ==
    /\ CallBegins
    /\ IF sock[c] = MAX_SOCK_NUM
       THEN /\ werr' = [werr EXCEPT ![c] = TRUE]
            /\ ret' = Returned("write", c, 0, MAX_SOCK_NUM, <<size>>, <<>>)
            /\ UNCHANGED <<pc, cur>>
       ELSE /\ pc' = "send_free"
            /\ cur' = [NoLocals EXCEPT !.who = c, !.caller = "write", !.s = sock[c],
                                      !.arg = <<size>>, !.sret = sendClamp(size % U16),
                                      !.i = readSnTX_WR(chip, sock[c])]
            /\ ret' = NoCall
            /\ UNCHANGED werr
    /\ chip' = Fresh
    /\ UNCHANGED <<local_port, srcport, server_port, sock, udp, narr, nconn>>

\* send(), lines 98-109: one pass of the free size loop; when the loop ends,
\* the copy and the SEND command
SendFree ==
    /\ pc = "send_free"
    /\ LET freesize == getTXFreeSize(chip, cur.s)
           st == readSnSR(chip, cur.s)
           bad == (st # ESTABLISHED) /\ (st # CLOSE_WAIT)
           r == IF bad THEN 0 ELSE cur.sret
       IN  IF ~bad /\ freesize < r
           THEN UNCHANGED <<chip, pc, cur>>
           ELSE /\ chip' = execCmdSn(send_data_processing(chip, cur.s, r), cur.s, "SEND")
                /\ cur' = [cur EXCEPT !.sret = r,
                                      !.arg = IF cur.caller = "send" THEN <<@[1], st>> ELSE @]
                /\ pc' = "send_ir"
    /\ ret' = NoCall
    /\ UNCHANGED <<local_port, srcport, server_port, sock, werr, udp, nops, narr, nconn>>

\* send() has returned v to the application, or to EthernetClient::write,
\* lines 139-143; the client object is one of the application, or the
\* temporary one of EthernetServer::write (line 139 there), which adds what
\* write returns to n
WriteReturns(v, ch, how) ==
    /\ chip' = ch
    /\ IF cur.caller = "send"
       THEN /\ werr' = werr
            /\ ret' = [Returned("send", "app", v, cur.s, cur.arg, <<v, cur.i, how>>)
                         EXCEPT !.n = nops]
            /\ pc' = "idle"
            /\ cur' = NoLocals
       ELSE IF cur.caller = "write"
       THEN /\ werr' = IF v = 0 THEN [werr EXCEPT ![cur.who] = TRUE] ELSE werr
            /\ ret' = [Returned("write", cur.who, IF v = 0 THEN 0 ELSE cur.arg[1], cur.s,
                                cur.arg, <<v, cur.i, how>>) EXCEPT !.n = nops]
            /\ pc' = "idle"
            /\ cur' = NoLocals
       ELSE /\ werr' = werr
            /\ ret' = NoCall
            /\ pc' = "server_write_loop"
            /\ cur' = [cur EXCEPT !.n = @ + (IF v = 0 THEN 0 ELSE cur.arg[1]),
                                  !.written = Append(@, <<cur.s, v, cur.i, how>>),
                                  !.s = cur.s + 1]

\* send(), line 112: while ((readSnIR(s) & SEND_OK) != SEND_OK), and lines 120-121
SendIR ==
    /\ pc = "send_ir"
    /\ IF SEND_OK \in readSnIR(chip, cur.s)
       THEN WriteReturns(cur.sret, writeSnIR(chip, cur.s, {SEND_OK}), "SEND_OK")
       ELSE /\ pc' = "send_sr"
            /\ ret' = NoCall
            /\ UNCHANGED <<chip, cur, werr>>
    /\ UNCHANGED <<local_port, srcport, server_port, sock, udp, nops, narr, nconn>>

\* SendSR returning 0 without the close() of line 115
SendSR_Mut ==
    /\ pc = "send_sr"
    /\ IF readSnSR(chip, cur.s) = CLOSED
       THEN WriteReturns(0, chip, "CLOSED")
       ELSE /\ pc' = "send_ir"
            /\ ret' = NoCall
            /\ UNCHANGED <<chip, cur, werr>>
    /\ UNCHANGED <<local_port, srcport, server_port, sock, udp, nops, narr, nconn>>

\* send(), lines 114-117: if (readSnSR(s) == CLOSED) { close(s); return 0; }
SendSR ==
    /\ pc = "send_sr"
    /\ IF readSnSR(chip, cur.s) = CLOSED
       THEN WriteReturns(0, close(chip, cur.s), "CLOSED")
       ELSE /\ pc' = "send_ir"
            /\ ret' = NoCall
            /\ UNCHANGED <<chip, cur, werr>>
    /\ UNCHANGED <<local_port, srcport, server_port, sock, udp, nops, narr, nconn>>

\* ------------------------------------------------------------------------
\* EthernetClient::read(), read(buf, size), peek()
\* ------------------------------------------------------------------------
ReadSizes == {0, 1, 2}

EthernetClient_read(c) ==
    /\ CallBegins
    /\ LET r == recv(Fresh, sock[c], 1)
       IN  /\ chip' = r.ch
           /\ ret' = Returned("read", c, IF r.ret > 0 THEN r.data[1] ELSE -1, sock[c],
                              <<>>, r.data)
    /\ UNCHANGED <<local_port, srcport, server_port, sock, werr, udp, pc, cur, narr, nconn>>

EthernetClient_readBuf(c, size) ==
    /\ CallBegins
    /\ LET r == recv(Fresh, sock[c], size)
       IN  /\ chip' = r.ch
           /\ ret' = Returned("readBuf", c, r.ret, sock[c], <<size>>, r.data)
    /\ UNCHANGED <<local_port, srcport, server_port, sock, werr, udp, pc, cur, narr, nconn>>

EthernetClient_peek(c) ==
    /\ CallBegins
    /\ IF available(Fresh, sock[c]) = 0
       THEN /\ chip' = Fresh
            /\ ret' = Returned("peek", c, -1, sock[c], <<>>, <<>>)
       ELSE LET p == peek(Fresh, sock[c])
            IN  /\ chip' = p.ch
                /\ ret' = Returned("peek", c, p.data[1], sock[c], <<>>, p.data)
    /\ UNCHANGED <<local_port, srcport, server_port, sock, werr, udp, pc, cur, narr, nconn>>

\* ------------------------------------------------------------------------
\* The chip and the peers between two register accesses of the host
\* ------------------------------------------------------------------------
ChipMoves(ch) ==
    /\ chip' = ch
    /\ ret' = NoCall
    /\ UNCHANGED <<local_port, srcport, server_port, sock, werr, udp, pc, cur, nops>>

\* the peer answers the SYN of a connecting socket
PeerAccepts(s) ==
    /\ chip.sr[s] = SYNSENT
    /\ ChipMoves([chip EXCEPT !.sr[s] = ESTABLISHED, !.ir[s] = @ \cup {IR_CON}])
    /\ UNCHANGED <<narr, nconn>>

\* a peer connects to a listening socket
PeerConnects(s) ==
    /\ chip.sr[s] = LISTEN
    /\ nconn < MaxPeerConn
    /\ nconn' = nconn + 1
    /\ ChipMoves([chip EXCEPT !.sr[s] = ESTABLISHED, !.ir[s] = @ \cup {IR_CON}])
    /\ UNCHANGED narr

\* the peer closes its side
PeerFin(s) ==
    /\ chip.sr[s] = ESTABLISHED
    /\ ChipMoves([chip EXCEPT !.sr[s] = CLOSE_WAIT, !.ir[s] = @ \cup {IR_DISCON}])
    /\ UNCHANGED <<narr, nconn>>

\* the connection ends: the close handshake completes, the peer resets, or
\* the retransmission timeout expires
ChipCloses(s) ==
    /\ chip.sr[s] \in {SYNSENT, ESTABLISHED, FIN_WAIT, LAST_ACK}
    /\ ChipMoves([chip EXCEPT !.sr[s] = CLOSED, !.tx_pend[s] = FALSE,
                              !.ir[s] = @ \cup (IF chip.sr[s] \in {FIN_WAIT, LAST_ACK}
                                                THEN {IR_DISCON} ELSE {TIMEOUT})])
    /\ UNCHANGED <<narr, nconn>>

\* a byte arrives; the k-th byte delivered in a run has the value k
PeerData(s) ==
    /\ chip.sr[s] \in {ESTABLISHED, SR_UDP}
    /\ narr < MaxArrive
    /\ narr' = narr + 1
    /\ ChipMoves([chip EXCEPT !.rxq[s] = Append(@, narr + 1), !.ir[s] = @ \cup {IR_RECV}])
    /\ UNCHANGED nconn

\* the chip has transmitted what SEND handed to it
ChipSendOk(s) ==
    /\ chip.tx_pend[s]
    /\ chip.sr[s] \in {ESTABLISHED, CLOSE_WAIT, SR_UDP}
    /\ ChipMoves([chip EXCEPT !.tx_pend[s] = FALSE, !.ir[s] = @ \cup {SEND_OK}])
    /\ UNCHANGED <<narr, nconn>>

\* ------------------------------------------------------------------------
\* EthernetServer (one server object, constructed with port ServerPort)
\* ------------------------------------------------------------------------
\* begin() with the loop of line 37 running from the last socket down
ServerBegin_Mut(ch, lp, sp) ==
    LET closed == {i \in Sockets : status(ch, i) = CLOSED}
    IN  IF closed = {}
        THEN [ch |-> ch, lp |-> lp, sp |-> sp]
        ELSE LET s == CHOOSE i \in closed : \A j \in closed : i >= j
                 o == socket(ch, lp, s, SnMR_TCP, ServerPort, 0)
                 l == listen(o.ch, s)
             IN  [ch |-> l.ch, lp |-> o.lp, sp |-> [sp EXCEPT ![s] = ServerPort]]

\* EthernetServer::begin(): the chip, local_port and _server_port afterwards
ServerBegin(ch, lp, sp) ==
    LET closed == {i \in Sockets : status(ch, i) = CLOSED}
    IN  IF closed = {}
        THEN [ch |-> ch, lp |-> lp, sp |-> sp]
        ELSE LET s == CHOOSE i \in closed : \A j \in closed : i <= j
                 o == socket(ch, lp, s, SnMR_TCP, ServerPort, 0)
                 l == listen(o.ch, s)
             IN  [ch |-> l.ch, lp |-> o.lp, sp |-> [sp EXCEPT ![s] = ServerPort]]

EthernetServer_begin ==
    /\ CallBegins
    /\ LET b == ServerBegin(Fresh, local_port, server_port)
       IN  /\ chip' = b.ch
           /\ local_port' = b.lp
           /\ server_port' = b.sp
    /\ ret' = Returned("begin", "server", 0, MAX_SOCK_NUM, <<>>, <<>>)
    /\ UNCHANGED <<srcport, sock, werr, udp, pc, cur, narr, nconn>>

\* EthernetServer::available(), line 93: enters accept()
EthernetServer_available ==
    /\ CallBegins
    /\ chip' = Fresh
    /\ pc' = "accept_loop"
    /\ cur' = [NoLocals EXCEPT !.who = "a1", !.caller = "accept",
                              !.arg = <<\A s \in Sockets :
                                            /\ chip.sr[s] = CLOSE_WAIT
                                            /\ server_port[s] = ServerPort
                                            /\ Len(chip.rxq[s]) = 0>>]
    /\ ret' = NoCall
    /\ UNCHANGED <<local_port, srcport, server_port, sock, werr, udp, narr, nconn>>

\* the test of line 67 without !client.available()
Reapable_Mut(ch, sp, j) ==
    /\ sp[j] = ServerPort
    /\ status(ch, j) # LISTEN
    /\ status(ch, j) = CLOSE_WAIT

\* accept(), line 67: the sockets of this server the loop stops
Reapable(ch, sp, j) ==
    /\ sp[j] = ServerPort
    /\ status(ch, j) # LISTEN
    /\ status(ch, j) = CLOSE_WAIT
    /\ available(ch, j) = 0

\* the scan of available() without the test of line 99
AvailableScan_Mut(ch, sp) ==
    LET ready == {i \in Sockets : /\ sp[i] = ServerPort
                                   /\ status(ch, i) \in {ESTABLISHED, CLOSE_WAIT}}
    IN  IF ready = {} THEN MAX_SOCK_NUM
        ELSE CHOOSE i \in ready : \A j \in ready : i <= j

\* available(), lines 95-106: the socket of the client returned
AvailableScan(ch, sp) ==
    LET ready == {i \in Sockets : /\ sp[i] = ServerPort
                                   /\ status(ch, i) \in {ESTABLISHED, CLOSE_WAIT}
                                   /\ available(ch, i) # 0}
    IN  IF ready = {} THEN MAX_SOCK_NUM
        ELSE CHOOSE i \in ready : \A j \in ready : i <= j

\* accept(), lines 61-75, from socket cur.i on: up to the next client.stop(),
\* or to the end of the loop, begin() and the scan of available()
AcceptLoop ==
    /\ pc = "accept_loop"
    /\ LET todo == {j \in Sockets : j >= cur.i /\ Reapable(chip, server_port, j)}
           upto == IF todo = {} THEN MAX_SOCK_NUM
                   ELSE CHOOSE j \in todo : \A k \in todo : j <= k
           heard == \/ cur.listening
                    \/ \E k \in Sockets : /\ k >= cur.i
                                           /\ k < upto
                                           /\ server_port[k] = ServerPort
                                           /\ status(chip, k) = LISTEN
       IN  IF upto # MAX_SOCK_NUM
           THEN /\ chip' = disconnect(chip, upto)
                /\ \E t \in StartTimes :
                     cur' = [cur EXCEPT !.s = upto, !.i = upto, !.listening = heard,
                                        !.start = t, !.now = t, !.waited = 0]
                /\ pc' = "stop_while"
                /\ ret' = NoCall
                /\ UNCHANGED <<local_port, server_port, sock>>
           ELSE LET b == IF heard THEN [ch |-> chip, lp |-> local_port, sp |-> server_port]
                         ELSE ServerBegin(chip, local_port, server_port)
                    a == AvailableScan(b.ch, b.sp)
                IN  /\ chip' = b.ch
                    /\ local_port' = b.lp
                    /\ server_port' = b.sp
                    /\ IF cur.who = "a1"
                       THEN /\ sock' = [sock EXCEPT !["a1"] = a]
                            /\ ret' = [Returned("available", "a1", a, a, cur.arg, <<>>)
                                          EXCEPT !.n = nops]
                            /\ pc' = "idle"
                            /\ cur' = NoLocals
                       ELSE /\ sock' = sock
                            /\ ret' = NoCall
                            /\ pc' = "server_write_loop"
                            /\ cur' = [cur EXCEPT !.s = 0, !.i = 0, !.n = 0]
    /\ UNCHANGED <<srcport, werr, udp, nops, narr, nconn>>

\* EthernetClient::stop() lines 226-229, for the client object of accept()
StopIfAccept ==
    /\ pc = "stop_if"
    /\ cur.caller = "accept"
    /\ chip' = IF status(chip, cur.s) # CLOSED THEN close(chip, cur.s) ELSE chip
    /\ server_port' = [server_port EXCEPT ![cur.s] = 0]
    /\ pc' = "accept_loop"
    /\ cur' = [cur EXCEPT !.i = cur.s + 1, !.s = MAX_SOCK_NUM]
    /\ ret' = NoCall
    /\ UNCHANGED <<local_port, srcport, sock, werr, udp, nops, narr, nconn>>

\* EthernetServer::write(buffer, size), line 133: enters accept()
EthernetServer_write(size) ==
    /\ CallBegins
    /\ chip' = Fresh
    /\ pc' = "accept_loop"
    /\ cur' = [NoLocals EXCEPT !.who = "server", !.caller = "accept", !.arg = <<size>>]
    /\ ret' = NoCall
    /\ UNCHANGED <<local_port, srcport, server_port, sock, werr, udp, narr, nconn>>

\* write(), lines 135-143, from socket cur.s on: up to the next
\* client.write(), which enters send(), or to the end of the loop
ServerWriteLoop ==
    /\ pc = "server_write_loop"
    /\ LET todo == {j \in Sockets : /\ j >= cur.s
                                     /\ server_port[j] = ServerPort
                                     /\ status(chip, j) = ESTABLISHED}
       IN  IF todo # {}
           THEN LET j == CHOOSE k \in todo : \A l \in todo : k <= l
                IN  /\ pc' = "send_free"
                    /\ cur' = [cur EXCEPT !.caller = "server_write", !.s = j,
                                          !.sret = sendClamp(cur.arg[1] % U16),
                                          !.i = readSnTX_WR(chip, j)]
                    /\ ret' = NoCall
           ELSE /\ pc' = "idle"
                /\ cur' = NoLocals
                /\ ret' = [Returned("server_write", "server", cur.n, MAX_SOCK_NUM, cur.arg,
                                    cur.written) EXCEPT !.n = nops]
    /\ UNCHANGED <<chip, local_port, srcport, server_port, sock, werr, udp, nops,
                   narr, nconn>>

\* ------------------------------------------------------------------------
\* EthernetUDP (one UDP object)
\* ------------------------------------------------------------------------
UdpPorts == {5000}

\* begin(), lines 43-49
UdpScan(ch) ==
    LET free == {i \in Sockets : readSnSR(ch, i) \in {CLOSED, FIN_WAIT}}
    IN  IF free = {} THEN MAX_SOCK_NUM
        ELSE CHOOSE i \in free : \A j \in free : i <= j

EthernetUDP_begin(port) ==
    /\ CallBegins
    /\ LET s == UdpScan(Fresh)
           o == socket(Fresh, local_port, s, SnMR_UDP, port, 0)
       IN  IF udp.sock # MAX_SOCK_NUM \/ s = MAX_SOCK_NUM
           THEN /\ chip' = Fresh
                /\ ret' = Returned("udp_begin", "udp", 0, udp.sock, <<port>>, <<>>)
                /\ UNCHANGED <<local_port, udp>>
           ELSE /\ chip' = o.ch
                /\ local_port' = o.lp
                /\ udp' = [udp EXCEPT !.sock = s, !.port = port, !.remaining = 0]
                /\ ret' = Returned("udp_begin", "udp", 1, s, <<port>>, <<>>)
    /\ UNCHANGED <<srcport, server_port, sock, werr, pc, cur, narr, nconn>>

EthernetUDP_stop ==
    /\ CallBegins
    /\ IF udp.sock = MAX_SOCK_NUM
       THEN /\ chip' = Fresh
            /\ UNCHANGED <<server_port, udp>>
       ELSE /\ chip' = close(Fresh, udp.sock)
            /\ server_port' = [server_port EXCEPT ![udp.sock] = 0]
            /\ udp' = [udp EXCEPT !.sock = MAX_SOCK_NUM]
    /\ ret' = Returned("udp_stop", "udp", 0, udp.sock, <<>>, <<>>)
    /\ UNCHANGED <<local_port, srcport, sock, werr, pc, cur, narr, nconn>>

\* ------------------------------------------------------------------------
\* Specifications
\* ------------------------------------------------------------------------
\* Socket allocation: every call that takes or releases a socket
Next ==
    \/ \E c \in OutClients : EthernetClient_connect(c, IP_PEER, 80)
    \/ ConnectWhile
    \/ ConnectIf
    \/ \E c \in Clients : EthernetClient_stop(c)
    \/ StopWhile
    \/ StopIf
    \/ EthernetServer_begin
    \/ EthernetServer_available
    \/ AcceptLoop
    \/ StopIfAccept
    \/ \E p \in UdpPorts : EthernetUDP_begin(p)
    \/ EthernetUDP_stop
    \/ \E s \in Sockets : PeerAccepts(s)
    \/ \E s \in Sockets : PeerConnects(s)
    \/ \E s \in Sockets : PeerFin(s)
    \/ \E s \in Sockets : ChipCloses(s)
    \/ \E s \in Sockets : PeerData(s)

Spec == Init /\ [][Next]_vars

\* the facades holding socket index s
Holders(s) ==
    {c \in Clients : sock[c] = s} \cup (IF udp.sock = s THEN {"udp"} ELSE {})

\* C1: no two live facades (clients, server-accepted clients, UDP objects)
\* hold the same socket index at the same time
C1_NoSharedSocket == \A s \in Sockets : Cardinality(Holders(s)) <= 1

\* Connecting: every destination, the peer answering, refusing or closing
NextConnect ==
    \/ \E c \in OutClients, ip \in DestIPs, p \in DestPorts : EthernetClient_connect(c, ip, p)
    \/ ConnectWhile
    \/ ConnectIf
    \/ \E s \in Sockets : PeerAccepts(s)
    \/ \E s \in Sockets : PeerFin(s)
    \/ \E s \in Sockets : ChipCloses(s)

SpecConnect == Init /\ [][NextConnect]_vars

\* a connect call with a destination connect() accepts has just returned
ValidConnectReturned ==
    /\ ret.op = "connect"
    /\ ~RejectedDest(ret.arg[1], ret.arg[2])

\* C2 as claimed: whenever connect to a valid destination returns, it
\* returned 1 with the socket ESTABLISHED or 0 with the socket CLOSED
C2_ConnectEstablishedOrClosed ==
    (ValidConnectReturned /\ ret.s # MAX_SOCK_NUM)
        => \/ ret.val = 1 /\ chip.sr[ret.s] = ESTABLISHED
           \/ ret.val = 0 /\ chip.sr[ret.s] = CLOSED

\* C2 as amended: the same for a connect called on a client that holds no
\* socket; on a client that holds one, connect returns 0 and leaves it alone
C2_UnboundConnectEstablishedOrClosed ==
    (ValidConnectReturned /\ ret.s # MAX_SOCK_NUM)
        => IF ret.arg[3] = MAX_SOCK_NUM
           THEN \/ ret.val = 1 /\ chip.sr[ret.s] = ESTABLISHED /\ sock[ret.who] = ret.s
                \/ ret.val = 0 /\ chip.sr[ret.s] = CLOSED /\ sock[ret.who] = MAX_SOCK_NUM
           ELSE ret.val = 0 /\ chip.log = <<>> /\ sock[ret.who] = ret.arg[3]

\* a connect that issued CONNECT has failed and left its socket CLOSED
C2_Witness ==
    /\ ValidConnectReturned
    /\ ret.arg[3] = MAX_SOCK_NUM
    /\ ret.s # MAX_SOCK_NUM
    /\ ret.val = 0
    /\ <<"cmd", ret.s, "CONNECT">> \in {chip.log[i] : i \in DOMAIN chip.log}

\* C3: a connect to an invalid destination returns 0 and has made no
\* socket command and no socket register write
C3_InvalidDestNoCommand ==
    (ret.op = "connect" /\ RejectedDest(ret.arg[1], ret.arg[2]))
        => ret.val = 0 /\ chip.log = <<>>

\* Sending: connect, write, stop, the chip completing or failing the SEND
NextSend ==
    \/ \E c \in OutClients : EthernetClient_connect(c, IP_PEER, 80)
    \/ ConnectWhile
    \/ ConnectIf
    \/ \E c \in OutClients, n \in WriteSizes : EthernetClient_write(c, n)
    \/ SendFree
    \/ SendIR
    \/ SendSR
    \/ \E c \in OutClients : EthernetClient_stop(c)
    \/ StopWhile
    \/ StopIf
    \/ \E s \in Sockets : PeerAccepts(s)
    \/ \E s \in Sockets : PeerFin(s)
    \/ \E s \in Sockets : ChipCloses(s)
    \/ \E s \in Sockets : ChipSendOk(s)

SpecSend == Init /\ [][NextSend]_vars

InLog(entry) == entry \in {chip.log[i] : i \in DOMAIN chip.log}

\* C4: a send of len bytes on an ESTABLISHED socket that ends with SEND_OK
\* returns min(len, 2048), has written that many bytes at the TX write
\* pointer, advanced TX_WR by that amount, issued SEND and cleared SEND_OK
C4_SendClampsToBufferSize ==
    (/\ ret.op = "write"
     /\ ret.s # MAX_SOCK_NUM
     /\ ret.data[3] = "SEND_OK"
     /\ chip.sr[ret.s] = ESTABLISHED)
        => LET n == Min(ret.arg[1], W5500_SSIZE)
           IN  /\ ret.data[1] = n
               /\ chip.tx_sent[ret.s] = << <<ret.data[2], n>> >>
               /\ chip.tx_wr[ret.s] = (ret.data[2] + n) % U16
               /\ InLog(<<"cmd", ret.s, "SEND">>)
               /\ SEND_OK \notin chip.ir[ret.s]

\* C6: a write on a client with no socket returns 0, sets the write error
\* flag and makes no chip access; once set the flag stays set
C6_UnboundWriteSetsStickyError ==
    /\ [](ret.op = "write" /\ ret.s = MAX_SOCK_NUM
            => ret.val = 0 /\ werr[ret.who] /\ chip.log = <<>>)
    /\ [][(ret'.op = "write" /\ ret'.s = MAX_SOCK_NUM /\ nops' = nops + 1)
            => chip' = Fresh]_vars
    /\ [][\A c \in Clients : werr[c] => werr'[c]]_vars

\* a client whose write failed for want of a socket has then connected with
\* success, and its flag is still set
C6_Witness ==
    /\ nops = 2
    /\ ret.op = "connect"
    /\ ret.val = 1
    /\ werr[ret.who]

\* Receiving: connect, read, read(buf, size), peek, the peer sending data
NextRecv ==
    \/ \E c \in OutClients : EthernetClient_connect(c, IP_PEER, 80)
    \/ ConnectWhile
    \/ ConnectIf
    \/ \E c \in OutClients : EthernetClient_read(c)
    \/ \E c \in OutClients, n \in ReadSizes : EthernetClient_readBuf(c, n)
    \/ \E c \in OutClients : EthernetClient_peek(c)
    \/ \E s \in Sockets : PeerAccepts(s)
    \/ \E s \in Sockets : PeerFin(s)
    \/ \E s \in Sockets : ChipCloses(s)
    \/ \E s \in Sockets : PeerData(s)

SpecRecv == Init /\ [][NextRecv]_vars

\* this step is a whole call of the method op
CallOf(op) == nops' = nops + 1 /\ ret'.op = op

\* recv finding nothing received: 0 at end of stream, -1 otherwise, and the
\* chip untouched
RecvNothing(s) ==
    /\ ret'.val = IF chip.sr[s] \in {LISTEN, CLOSED, CLOSE_WAIT} THEN 0 ELSE -1
    /\ chip' = Fresh

\* recv copying n bytes from RX_RD, advancing RX_RD by n and issuing RECV
RecvCopies(s, n) ==
    /\ ret'.val = n
    /\ ret'.data = SubSeq(chip.rxq[s], 1, n)
    /\ chip'.rx_rd[s] = (chip.rx_rd[s] + n) % U16
    /\ <<"cmd", s, "RECV">> \in {chip'.log[i] : i \in DOMAIN chip'.log}

\* C7 as claimed: recv(buf, maxLen) with received size 0 returns 0 (LISTEN,
\* CLOSED, CLOSE_WAIT) or -1 and leaves the chip alone; with received size
\* r > 0 it returns n = min(r, maxLen), copies n bytes from RX_RD, advances
\* RX_RD by n and issues RECV
C7_RecvContract ==
    [][CallOf("readBuf") =>
        LET s == Sn(ret'.s)
            r == Len(chip.rxq[s])
        IN  IF r = 0 THEN RecvNothing(s)
            ELSE RecvCopies(s, Min(r, ret'.arg[1]))]_vars

\* C7 as amended: the same for maxLen >= 1; with maxLen = 0 and data
\* received, recv returns 0 and issues no RECV
C7_RecvContractPositiveLen ==
    [][CallOf("readBuf") =>
        LET s == Sn(ret'.s)
            r == Len(chip.rxq[s])
        IN  IF r = 0 THEN RecvNothing(s)
            ELSE IF ret'.arg[1] >= 1 THEN RecvCopies(s, Min(r, ret'.arg[1]))
            ELSE ret'.val = 0 /\ chip' = Fresh]_vars

\* a read(buf, 1) has taken one of two received bytes
C7_Witness ==
    /\ ret.op = "readBuf"
    /\ ret.arg[1] = 1
    /\ ret.val = 1
    /\ Len(chip.rxq[Sn(ret.s)]) = 1

\* C8: peek leaves RX_RD and the received size unchanged and issues no RECV,
\* returns -1 when nothing is available and the next unread byte otherwise;
\* a peek or read that follows a peek returns the byte the peek returned
C8_PeekDoesNotAdvance ==
    /\ [][CallOf("peek") =>
            /\ chip' = Fresh
            /\ ret'.val = IF available(chip, ret'.s) = 0 THEN -1
                          ELSE Head(chip.rxq[ret'.s])]_vars
    /\ [][(/\ CallOf("peek") \/ CallOf("read")
           /\ ret.op = "peek"
           /\ ret.who = ret'.who
           /\ ret.val # -1) => ret'.val = ret.val]_vars

\* a read() has returned the byte the peek() before it returned
C8_Witness ==
    /\ ret.op = "read"
    /\ ret.last[1] = "peek"
    /\ ret.last[2] = ret.who
    /\ ret.last[3] # -1
    /\ ret.val = ret.last[3]

\* Closing: one outgoing client, the server and the client it hands out
NextStop ==
    \/ EthernetClient_connect("c1", IP_PEER, 80)
    \/ ConnectWhile
    \/ ConnectIf
    \/ \E c \in {"c1", "a1"} : EthernetClient_stop(c)
    \/ StopWhile
    \/ StopIf
    \/ EthernetServer_begin
    \/ EthernetServer_available
    \/ AcceptLoop
    \/ StopIfAccept
    \/ \E s \in Sockets : PeerAccepts(s)
    \/ \E s \in Sockets : PeerConnects(s)
    \/ \E s \in Sockets : PeerFin(s)
    \/ \E s \in Sockets : ChipCloses(s)
    \/ \E s \in Sockets : PeerData(s)

SpecStop == Init /\ [][NextStop]_vars

\* C9: when stop() returns on a client bound to socket s, DISCON was the
\* first command issued, CLOSE was issued only if s was not CLOSED after the
\* wait, s reports CLOSED, the server-port entry of s is 0 and the client
\* holds no socket; stop() on a client with no socket changes nothing
C9_StopSequence ==
    /\ [](ret.op = "stop" /\ ret.s # MAX_SOCK_NUM
            => /\ chip.log # <<>>
               /\ chip.log[1] = <<"cmd", ret.s, "DISCON">>
               /\ InLog(<<"cmd", ret.s, "CLOSE">>) <=> ret.data[2] # CLOSED
               /\ chip.sr[ret.s] = CLOSED
               /\ server_port[ret.s] = 0
               /\ sock[ret.who] = MAX_SOCK_NUM)
    /\ [][\A c \in Clients :
            (CallOf("stop") /\ ret'.who = c /\ sock[c] = MAX_SOCK_NUM)
                => /\ chip' = Fresh
                   /\ UNCHANGED <<local_port, srcport, server_port, sock, werr, udp>>]_vars

\* stop() has returned on the client server.available() handed out, having
\* had to force the close
C9_Witness ==
    /\ ret.op = "stop"
    /\ ret.who = "a1"
    /\ ret.s # MAX_SOCK_NUM
    /\ InLog(<<"cmd", ret.s, "CLOSE">>)
    /\ chip.sr[ret.s] = CLOSED

\* C10: stop() waits for CLOSED no longer than 1000 ms (and one poll of the
\* status register) after DISCON, whatever millis() was at the start; it
\* gives up on a socket that is not CLOSED only after 1000 ms, and then
\* forces the close and returns
C10_StopWaitBounded ==
    /\ pc \in {"stop_while", "stop_if"} => cur.waited < StopTimeout + Tick
    /\ (pc = "stop_if" /\ status(chip, cur.s) # CLOSED) => cur.waited >= StopTimeout
    /\ (ret.op = "stop" /\ ret.s # MAX_SOCK_NUM /\ ret.data[2] # CLOSED)
            => /\ ret.data[1] >= StopTimeout
               /\ InLog(<<"cmd", ret.s, "CLOSE">>)
               /\ chip.sr[ret.s] = CLOSED

\* stop() has returned after the full wait, millis() having wrapped around
\* during it
C10_Witness ==
    /\ ret.op = "stop"
    /\ ret.s # MAX_SOCK_NUM
    /\ ret.data[1] >= StopTimeout
    /\ ret.data[2] # CLOSED
    /\ ret.data[3] = Millis(U16 - 1, U16 - 600)
    /\ InLog(<<"cmd", ret.s, "CLOSE">>)

\* ------------------------------------------------------------------------
\* EthernetClient::connected()
\* ------------------------------------------------------------------------
\* connected() taking CLOSE_WAIT for closed whatever remains to be read
connected_Mut(ch, s) ==
    IF s = MAX_SOCK_NUM THEN 0
    ELSE IF status(ch, s) \in {LISTEN, CLOSED, FIN_WAIT, CLOSE_WAIT} THEN 0
    ELSE 1

\* connected() of a client object holding socket index s
connected(ch, s) ==
    IF s = MAX_SOCK_NUM THEN 0
    ELSE LET st == status(ch, s)
         IN  IF \/ st = LISTEN
                \/ st = CLOSED
                \/ st = FIN_WAIT
                \/ st = CLOSE_WAIT /\ available(ch, s) = 0
             THEN 0 ELSE 1

EthernetClient_connected(c) ==
    /\ CallBegins
    /\ chip' = Fresh
    /\ ret' = Returned("connected", c, connected(Fresh, sock[c]), sock[c], <<>>, <<>>)
    /\ UNCHANGED <<local_port, srcport, server_port, sock, werr, udp, pc, cur,
                   narr, nconn>>

\* Connection state: clients connecting to any destination, the server
\* taking sockets, the peer sending and closing
NextConnected ==
    \/ \E c \in OutClients, ip \in {IP_PEER, IP_ZERO} : EthernetClient_connect(c, ip, 80)
    \/ ConnectWhile
    \/ ConnectIf
    \/ \E c \in OutClients : EthernetClient_connected(c)
    \/ EthernetServer_begin
    \/ \E s \in Sockets : PeerAccepts(s)
    \/ \E s \in Sockets : PeerFin(s)
    \/ \E s \in Sockets : ChipCloses(s)
    \/ \E s \in Sockets : PeerData(s)

SpecConnected == Init /\ [][NextConnected]_vars

\* C11: connected() returns false exactly when the client holds no socket,
\* or the status is LISTEN, CLOSED or FIN_WAIT, or it is CLOSE_WAIT with
\* nothing left to read; it returns true in every other case
C11_ConnectedFalseExactlyWhen ==
    ret.op = "connected" =>
        (ret.val = 0 <=>
            \/ ret.s = MAX_SOCK_NUM
            \/ chip.sr[ret.s] \in {LISTEN, CLOSED, FIN_WAIT}
            \/ chip.sr[ret.s] = CLOSE_WAIT /\ Len(chip.rxq[ret.s]) = 0)

\* connected() has returned true on a socket in CLOSE_WAIT with unread data
C11_Witness ==
    /\ ret.op = "connected"
    /\ ret.val = 1
    /\ chip.sr[ret.s] = CLOSE_WAIT
    /\ Len(chip.rxq[ret.s]) > 0

\* ------------------------------------------------------------------------
\* The server: begin(), available() and accept(), starting after any number
\* of begin() calls whose connections the peers have closed again or not
\* ------------------------------------------------------------------------
\* the chip, local_port and _server_port after k calls of begin()
RECURSIVE BegunTimes(_)
BegunTimes(k) ==
    IF k = 0
    THEN [ch |-> ChipInit, lp |-> 0, sp |-> [s \in Sockets |-> 0]]
    ELSE LET b == BegunTimes(k - 1) IN ServerBegin(b.ch, b.lp, b.sp)

\* a peer has connected to each of the listening sockets below j and closed
\* its side, having sent one byte to the sockets below d and nothing to the
\* others
PeersCameAndWent(ch, j, d) ==
    [ch EXCEPT !.sr = [s \in Sockets |-> IF s < j THEN CLOSE_WAIT ELSE ch.sr[s]],
               !.ir = [s \in Sockets |-> IF s < d THEN {IR_CON, IR_RECV, IR_DISCON}
                                         ELSE IF s < j THEN {IR_CON, IR_DISCON}
                                         ELSE ch.ir[s]],
               !.rxq = [s \in Sockets |-> IF s < d THEN <<0>> ELSE ch.rxq[s]],
               !.log = <<>>]

\* the program after k calls of begin() and the connections <<k, j, d>> of
\* shapes
InitAfter(shapes) ==
    /\ \E h \in shapes :
         /\ chip = PeersCameAndWent(BegunTimes(h[1]).ch, h[2], h[3])
         /\ local_port = BegunTimes(h[1]).lp
         /\ server_port = BegunTimes(h[1]).sp
    /\ srcport = SrcPortInit
    /\ sock = [c \in Clients |-> MAX_SOCK_NUM]
    /\ werr = [c \in Clients |-> FALSE]
    /\ udp = UdpInit
    /\ pc = "idle"
    /\ cur = NoLocals
    /\ ret = NoCall
    /\ nops = 0
    /\ narr = 0
    /\ nconn = 0

\* begin() with 0 to MAX_SOCK_NUM sockets taken, listening or in CLOSE_WAIT
InitBegin ==
    InitAfter({h \in (0..MAX_SOCK_NUM) \X (0..MAX_SOCK_NUM) \X {0} : h[2] \in {0, h[1]}})

NextBegin ==
    \/ EthernetServer_begin
    \/ \E s \in Sockets : PeerConnects(s)
    \/ \E s \in Sockets : PeerFin(s)
    \/ \E s \in Sockets : ChipCloses(s)
    \/ \E s \in Sockets : PeerData(s)

SpecBegin == InitBegin /\ [][NextBegin]_vars

\* available() with no, one or two sockets taken
ServerShapes == {<<0, 0, 0>>, <<1, 0, 0>>, <<1, 1, 0>>, <<1, 1, 1>>,
                 <<2, 1, 0>>, <<2, 1, 1>>, <<2, 2, 0>>, <<2, 2, 1>>}

InitServer == InitAfter(ServerShapes)

NextServer ==
    \/ EthernetServer_available
    \/ AcceptLoop
    \/ StopWhile
    \/ StopIfAccept
    \/ \E s \in Sockets : PeerConnects(s)
    \/ \E s \in Sockets : PeerFin(s)
    \/ \E s \in Sockets : ChipCloses(s)
    \/ \E s \in Sockets : PeerData(s)

SpecServer == InitServer /\ [][NextServer]_vars

\* available() with every socket of the chip in CLOSE_WAIT as well
InitReap == InitAfter(ServerShapes \cup {<<MAX_SOCK_NUM, MAX_SOCK_NUM, 0>>})

\* the peers send nothing while the server closes the connections
NextReap ==
    \/ EthernetServer_available
    \/ AcceptLoop
    \/ StopWhile
    \/ StopIfAccept
    \/ \E s \in Sockets : PeerConnects(s)
    \/ \E s \in Sockets : PeerFin(s)
    \/ \E s \in Sockets : ChipCloses(s)

SpecReap == InitReap /\ [][NextReap]_vars

\* C12: begin() opens the lowest CLOSED socket in TCP mode on the server's
\* port, puts it in LISTEN and sets its server-port entry, leaving the status
\* and the server-port entry of every other socket as they were; with no
\* socket CLOSED it changes nothing
C12_BeginClaimsOneClosedSocket ==
    [][CallOf("begin") =>
        LET closed == {i \in Sockets : chip.sr[i] = CLOSED}
        IN  IF closed = {}
            THEN chip' = Fresh /\ UNCHANGED <<server_port, local_port, sock, udp>>
            ELSE LET s == CHOOSE i \in closed : \A j \in closed : i <= j
                 IN  /\ chip'.sr[s] = LISTEN
                     /\ chip'.mr[s] = SnMR_TCP
                     /\ chip'.port[s] = ServerPort
                     /\ server_port'[s] = ServerPort
                     /\ \A i \in Sockets \ {s} :
                          /\ chip'.sr[i] = chip.sr[i]
                          /\ server_port'[i] = server_port[i]]_vars

\* begin() has taken a socket above others that were not CLOSED
C12_Witness ==
    /\ ret.op = "begin"
    /\ \E s \in Sockets \ {0} :
         /\ InLog(<<"cmd", s, "LISTEN">>)
         /\ chip.sr[s] = LISTEN
         /\ server_port[s] = ServerPort
         /\ chip.sr[0] # CLOSED

\* the sockets of the server that listen
Listening == {s \in Sockets : server_port[s] = ServerPort /\ chip.sr[s] = LISTEN}

\* the sockets the call in progress, or just returned, has issued cmd on
Issued(cmd) == {s \in Sockets : InLog(<<"cmd", s, cmd>>)}

\* ret.arg of available(): every socket of the chip was bound to the server's
\* port and in CLOSE_WAIT with nothing to read when the call began
AllWereClosing ==
    ret.arg[1]

\* C13: when available() is called with every socket bound to the server's
\* port and in CLOSE_WAIT with nothing to read, at its return every socket
\* has been closed and exactly one socket of the server listens; accept()
\* opens a listening socket only when no socket of the server listens (and
\* then one only), and never closes a socket that has unread data
C13_AcceptReapsAndRearms ==
    /\ [](ret.op = "available" =>
            /\ AllWereClosing =>
                 /\ Issued("DISCON") = Sockets
                 /\ \A s \in Sockets : chip.sr[s] \in {CLOSED, LISTEN}
                 /\ Cardinality(Listening) = 1
            /\ Issued("LISTEN") # {} =>
                 /\ Cardinality(Issued("LISTEN")) = 1
                 /\ Listening = Issued("LISTEN"))
    /\ [][\A s \in Sockets :
            (<<"cmd", s, "DISCON">> \in {chip'.log[i] : i \in DOMAIN chip'.log}
                /\ ~InLog(<<"cmd", s, "DISCON">>)
                /\ pc = "accept_loop")
            => chip.sr[s] = CLOSE_WAIT /\ Len(chip.rxq[s]) = 0]_vars

\* available() has returned after closing all eight sockets and opening one
C13_Witness ==
    /\ ret.op = "available"
    /\ AllWereClosing
    /\ Issued("DISCON") = Sockets
    /\ Cardinality(Listening) = 1

\* C14: available() returns the lowest socket that is bound to the server's
\* port, is ESTABLISHED or CLOSE_WAIT and has unread data, and the invalid
\* client (socket MAX_SOCK_NUM) when there is none
C14_AvailableLowestWithData ==
    ret.op = "available" =>
        LET ready == {s \in Sockets : /\ server_port[s] = ServerPort
                                      /\ chip.sr[s] \in {ESTABLISHED, CLOSE_WAIT}
                                      /\ Len(chip.rxq[s]) > 0}
        IN  /\ sock["a1"] = ret.val
            /\ IF ready = {} THEN ret.val = MAX_SOCK_NUM
               ELSE ret.val \in ready /\ \A s \in ready : ret.val <= s

\* available() has returned the lower of two sockets with data, and there is
\* a connection of the server that has not delivered data
C14_Witness ==
    /\ ret.op = "available"
    /\ ret.val # MAX_SOCK_NUM
    /\ \E s \in Sockets : /\ s > ret.val
                          /\ server_port[s] = ServerPort
                          /\ chip.sr[s] = ESTABLISHED
                          /\ Len(chip.rxq[s]) > 0

\* Server.write: the server sends to its connections
ServerWriteSizes == {0, 1, 3000}

NextServerWrite ==
    \/ \E n \in ServerWriteSizes : EthernetServer_write(n)
    \/ AcceptLoop
    \/ StopWhile
    \/ StopIfAccept
    \/ ServerWriteLoop
    \/ SendFree
    \/ SendIR
    \/ SendSR
    \/ \E s \in Sockets : PeerConnects(s)
    \/ \E s \in Sockets : PeerFin(s)
    \/ \E s \in Sockets : ChipCloses(s)
    \/ \E s \in Sockets : ChipSendOk(s)

SpecServerWrite == InitServer /\ [][NextServerWrite]_vars

RECURSIVE SumOf(_)
SumOf(seq) == IF seq = <<>> THEN 0 ELSE Head(seq) + SumOf(Tail(seq))

\* C15: Server.write(buf, size) sends the data (up to the 2048 bytes a send
\* takes) to the sockets bound to the server's port and ESTABLISHED and to no
\* other socket, and returns the sum of the byte counts written to them
C15_ServerWriteBroadcasts ==
    ret.op = "server_write" =>
        LET w == ret.data
            n == Min(ret.arg[1], W5500_SSIZE)
        IN  /\ \A i \in DOMAIN w :
                 w[i][4] = "SEND_OK" =>
                    /\ w[i][2] = n
                    /\ chip.tx_sent[w[i][1]] = << <<w[i][3], n>> >>
            /\ Issued("SEND") = {w[i][1] : i \in DOMAIN w}
            /\ \A s \in Issued("SEND") : server_port[s] = ServerPort
            /\ ret.val = SumOf([i \in DOMAIN w |-> w[i][2]])

\* C16: the server-port entry of a socket that is CLOSED is 0, and so is the
\* entry of every socket an outgoing client or the UDP object holds
C16_ServerPortOnlyForServerSockets ==
    pc = "idle" =>
        /\ \A s \in Sockets : chip.sr[s] = CLOSED => server_port[s] = 0
        /\ \A c \in OutClients : sock[c] # MAX_SOCK_NUM => server_port[sock[c]] = 0
        /\ udp.sock # MAX_SOCK_NUM => server_port[udp.sock] = 0

\* Reuse of sockets: clients and the UDP object taking and releasing sockets
NextReuse ==
    \/ \E c \in OutClients, ip \in {IP_PEER, IP_ZERO} : EthernetClient_connect(c, ip, 80)
    \/ ConnectWhile
    \/ ConnectIf
    \/ \E c \in OutClients : EthernetClient_stop(c)
    \/ StopWhile
    \/ StopIf
    \/ \E p \in UdpPorts : EthernetUDP_begin(p)
    \/ EthernetUDP_stop
    \/ \E s \in Sockets : PeerAccepts(s)
    \/ \E s \in Sockets : PeerFin(s)
    \/ \E s \in Sockets : ChipCloses(s)

SpecReuse == Init /\ [][NextReuse]_vars

\* the sockets Client.connect may take
Allocatable == {s \in Sockets : chip.sr[s] \in {CLOSED, FIN_WAIT, CLOSE_WAIT}}

\* C17: after Client.stop() or UDP.stop() returns for socket s, s is CLOSED
\* (which connect, UDP.begin and Server.begin all select); connect and stop,
\* however often repeated, do not reduce the number of sockets available:
\* when no facade holds a socket, every socket can be allocated
C17_ReleasedSocketsAreReusable ==
    /\ (ret.op \in {"stop", "udp_stop"} /\ ret.s # MAX_SOCK_NUM) => chip.sr[ret.s] = CLOSED
    /\ (pc = "idle" /\ udp.sock = MAX_SOCK_NUM /\ \A c \in Clients : sock[c] = MAX_SOCK_NUM)
            => Allocatable = Sockets

\* ------------------------------------------------------------------------
\* EthernetUDP: composing and sending a datagram
\* ------------------------------------------------------------------------
\* startUDP with the destination test of connect
startUDP_Mut(ch, s, addr, port) ==
    IF RejectedDest(addr, port)
    THEN [ret |-> 0, ch |-> ch]
    ELSE [ret |-> 1, ch |-> writeSnDPORT(writeSnDIPR(ch, s, addr), s, port)]

\* startUDP(chip, s, addr, port): value returned and the chip afterwards
startUDP(ch, s, addr, port) ==
    IF addr = IP_ZERO \/ port = 0
    THEN [ret |-> 0, ch |-> ch]
    ELSE [ret |-> 1, ch |-> writeSnDPORT(writeSnDIPR(ch, s, addr), s, port)]

\* bufferData(chip, s, offset, buf, len): bytes taken and the chip afterwards
bufferData(ch, s, offset, len) ==
    LET r == IF len > getTXFreeSize(ch, s) THEN getTXFreeSize(ch, s) ELSE len
    IN  [ret |-> r, ch |-> send_data_processing_offset(ch, s, offset, r)]

\* EthernetUDP::beginPacket(ip, port); wr0 keeps TX_WR as it is now
EthernetUDP_beginPacket(ip, port) ==
    /\ CallBegins
    /\ LET o == startUDP(Fresh, udp.sock, ip, port)
       IN  /\ chip' = o.ch
           /\ udp' = [udp EXCEPT !.offset = 0, !.writes = <<>>,
                                 !.wr0 = IF o.ret = 1 THEN readSnTX_WR(chip, udp.sock)
                                         ELSE NoPacket]
           /\ ret' = Returned("beginPacket", "udp", o.ret, udp.sock, <<ip, port>>, <<>>)
    /\ UNCHANGED <<local_port, srcport, server_port, sock, werr, pc, cur, narr, nconn>>

\* EthernetUDP::write(buffer, size); the result records TX_WR after the call
EthernetUDP_write(size) ==
    /\ CallBegins
    /\ LET o == bufferData(Fresh, udp.sock, udp.offset, size)
       IN  /\ chip' = o.ch
           /\ udp' = [udp EXCEPT !.offset = (@ + o.ret) % U16,
                                 !.writes = Append(@, o.ret)]
           /\ ret' = Returned("udp_write", "udp", o.ret, udp.sock, <<size>>,
                              <<readSnTX_WR(o.ch, udp.sock)>>)
    /\ UNCHANGED <<local_port, srcport, server_port, sock, werr, pc, cur, narr, nconn>>

\* EthernetUDP::endPacket() -> sendUDP, line 337: the SEND command
EthernetUDP_endPacket ==
    /\ CallBegins
    /\ chip' = execCmdSn(Fresh, udp.sock, "SEND")
    /\ pc' = "sendudp_ir"
    /\ cur' = [NoLocals EXCEPT !.who = "udp", !.caller = "endPacket", !.s = udp.sock]
    /\ ret' = NoCall
    /\ UNCHANGED <<local_port, srcport, server_port, sock, werr, udp, narr, nconn>>

\* SendUdpIR clearing SEND_OK alone at line 343
SendUdpIR_Mut ==
    /\ pc = "sendudp_ir"
    /\ IF SEND_OK \in readSnIR(chip, cur.s)
       THEN /\ chip' = writeSnIR(chip, cur.s, {SEND_OK})
            /\ ret' = Returned("endPacket", "udp", 1, cur.s, <<>>, <<>>)
            /\ pc' = "idle"
            /\ cur' = NoLocals
            /\ udp' = [udp EXCEPT !.wr0 = NoPacket]
       ELSE IF TIMEOUT \in readSnIR(chip, cur.s)
       THEN /\ chip' = writeSnIR(chip, cur.s, {SEND_OK})
            /\ ret' = Returned("endPacket", "udp", 0, cur.s, <<>>, <<>>)
            /\ pc' = "idle"
            /\ cur' = NoLocals
            /\ udp' = [udp EXCEPT !.wr0 = NoPacket]
       ELSE /\ ret' = NoCall
            /\ UNCHANGED <<chip, pc, cur, udp>>
    /\ UNCHANGED <<local_port, srcport, server_port, sock, werr, nops, narr, nconn>>

\* sendUDP, lines 340-352: one turn of the loop polling Sn_IR
SendUdpIR ==
    /\ pc = "sendudp_ir"
    /\ IF SEND_OK \in readSnIR(chip, cur.s)
       THEN /\ chip' = writeSnIR(chip, cur.s, {SEND_OK})
            /\ ret' = Returned("endPacket", "udp", 1, cur.s, <<>>, <<>>)
            /\ pc' = "idle"
            /\ cur' = NoLocals
            /\ udp' = [udp EXCEPT !.wr0 = NoPacket]
       ELSE IF TIMEOUT \in readSnIR(chip, cur.s)
       THEN /\ chip' = writeSnIR(chip, cur.s, {SEND_OK, TIMEOUT})
            /\ ret' = Returned("endPacket", "udp", 0, cur.s, <<>>, <<>>)
            /\ pc' = "idle"
            /\ cur' = NoLocals
            /\ udp' = [udp EXCEPT !.wr0 = NoPacket]
       ELSE /\ ret' = NoCall
            /\ UNCHANGED <<chip, pc, cur, udp>>
    /\ UNCHANGED <<local_port, srcport, server_port, sock, werr, nops, narr, nconn>>

\* the chip gives up on a datagram (no ARP reply): the socket stays open
ChipSendTimeout(s) ==
    /\ chip.tx_pend[s]
    /\ chip.sr[s] = SR_UDP
    /\ ChipMoves([chip EXCEPT !.tx_pend[s] = FALSE, !.ir[s] = @ \cup {TIMEOUT}])
    /\ UNCHANGED <<narr, nconn>>

UdpPort == 8888
UdpDestPort == 5000
UdpWriteSizes == {0, 1, 2}

\* the program after udp.begin(UdpPort) on a fresh chip
UdpBegun ==
    LET o == socket(ChipInit, 0, 0, SnMR_UDP, UdpPort, 0)
    IN  [ch |-> [o.ch EXCEPT !.log = <<>>], lp |-> o.lp,
         udp |-> [UdpInit EXCEPT !.sock = 0, !.port = UdpPort]]

\* ... and after udp.beginPacket(IP_PEER, UdpDestPort)
UdpPacketBegun ==
    LET o == startUDP(UdpBegun.ch, 0, IP_PEER, UdpDestPort)
    IN  [ch |-> [o.ch EXCEPT !.log = <<>>], lp |-> UdpBegun.lp,
         udp |-> [UdpBegun.udp EXCEPT !.offset = 0, !.wr0 = readSnTX_WR(UdpBegun.ch, 0),
                                      !.writes = <<>>]]

InitUdp(starts) ==
    /\ \E h \in starts : chip = h.ch /\ local_port = h.lp /\ udp = h.udp
    /\ srcport = SrcPortInit
    /\ server_port = [s \in Sockets |-> 0]
    /\ sock = [c \in Clients |-> MAX_SOCK_NUM]
    /\ werr = [c \in Clients |-> FALSE]
    /\ pc = "idle"
    /\ cur = NoLocals
    /\ ret = NoCall
    /\ nops = 0
    /\ narr = 0
    /\ nconn = 0

InitUdpSend == InitUdp({UdpBegun, UdpPacketBegun})

\* Sending datagrams: the UDP object composing packets on its socket
NextUdpSend ==
    \/ \E ip \in {IP_PEER, IP_ZERO} : EthernetUDP_beginPacket(ip, UdpDestPort)
    \/ \E n \in UdpWriteSizes : EthernetUDP_write(n)
    \/ EthernetUDP_endPacket
    \/ SendUdpIR
    \/ \E s \in Sockets : ChipSendOk(s)
    \/ \E s \in Sockets : ChipSendTimeout(s)

SpecUdpSend == InitUdpSend /\ [][NextUdpSend]_vars

HEADER == 0
PAYLOAD == 1
Tagged(kind, d, i, v) == v + U8 * (i + 16 * (kind + 2 * d))
ByteVal(b) == b % U8
ByteIdx(b) == (b \div U8) % 16
ByteKind(b) == (b \div (U8 * 16)) % 2
ByteDgram(b) == b \div (U8 * 32)

UdpPayloadLens == {0, 1, 2}
UdpPeerPort == 5000

\* what the chip puts into the RX buffer for datagram number d with n bytes
\* of payload: sender IP[4], sender port[2], payload length[2], payload
Datagram(d, n) ==
    LET hdr == IP_PEER \o <<UdpPeerPort \div U8, UdpPeerPort % U8, n \div U8, n % U8>>
    IN  [i \in 1 .. 8 |-> Tagged(HEADER, d, i - 1, hdr[i])]
          \o [i \in 1 .. n |-> Tagged(PAYLOAD, d, i - 1, (16 * d + i) % U8)]

\* a datagram arrives on an open UDP socket
PeerDatagram(s, n) ==
    /\ chip.sr[s] = SR_UDP
    /\ narr < MaxArrive
    /\ narr' = narr + 1
    /\ ChipMoves([chip EXCEPT !.rxq[s] = @ \o Datagram(narr + 1, n),
                              !.ir[s] = @ \cup {IR_RECV}])
    /\ UNCHANGED nconn

\* EthernetUDP::flush(): while (_remaining) read(); hang: read() got nothing
\* with _remaining > 0, and the loop never ends
RECURSIVE flush(_, _, _)
flush(ch, s, remaining) ==
    IF remaining = 0 THEN [ch |-> ch, remaining |-> 0, hang |-> FALSE]
    ELSE LET r == recv(ch, s, 1)
         IN  IF r.ret > 0 THEN flush(r.ch, s, remaining - 1)
             ELSE [ch |-> ch, remaining |-> remaining, hang |-> TRUE]

\* values an uninitialized byte of tmpBuf may hold
UninitBytes == {0, 255}

\* EthernetUDP::parsePacket() from the chip ch0 on: flush(), which goes on
\* turning (cur.n counts its turns modulo 2) while read() gets nothing, and
\* then the header; the result records the header bytes taken
parsePacket(ch0) ==
    /\ LET f == flush(ch0, udp.sock, udp.remaining)
       IN  IF f.hang
           THEN /\ chip' = f.ch
                /\ udp' = [udp EXCEPT !.remaining = f.remaining]
                /\ pc' = "udp_flush"
                /\ cur' = [NoLocals EXCEPT !.who = "udp", !.caller = "parsePacket",
                                           !.s = udp.sock, !.n = 1 - cur.n]
                /\ ret' = NoCall
           ELSE /\ pc' = "idle"
                /\ cur' = IF pc = "idle" THEN cur ELSE NoLocals
                /\ IF getRXReceivedSize(f.ch, udp.sock) > 0
                   THEN LET r == recv(f.ch, udp.sock, 8)
                        IN  /\ chip' = r.ch
                            /\ IF r.ret > 0
                               THEN \E pad \in UninitBytes :
                                      LET tmpBuf == [i \in 1 .. 8 |->
                                                       IF i <= r.ret THEN ByteVal(r.data[i])
                                                       ELSE pad]
                                          len == (tmpBuf[7] * U8 + tmpBuf[8]) % U16
                                      IN  /\ udp' = [udp EXCEPT
                                                !.remoteIP = <<tmpBuf[1], tmpBuf[2],
                                                               tmpBuf[3], tmpBuf[4]>>,
                                                !.remotePort = (tmpBuf[5] * U8 + tmpBuf[6]) % U16,
                                                !.remaining = len]
                                          /\ ret' = Returned("parsePacket", "udp", len,
                                                             udp.sock, <<>>, r.data)
                               ELSE /\ udp' = [udp EXCEPT !.remaining = f.remaining]
                                    /\ ret' = Returned("parsePacket", "udp", r.ret,
                                                       udp.sock, <<>>, <<>>)
                   ELSE /\ chip' = f.ch
                        /\ udp' = [udp EXCEPT !.remaining = f.remaining]
                        /\ ret' = Returned("parsePacket", "udp", 0, udp.sock, <<>>, <<>>)
    /\ UNCHANGED <<local_port, srcport, server_port, sock, werr, narr, nconn>>

\* EthernetUDP::parsePacket() is called
EthernetUDP_parsePacket == CallBegins /\ parsePacket(Fresh)

\* EthernetUDP::flush(), lines 181-183: one more turn of while (_remaining)
\* read(); in a parsePacket() whose flush() has not ended
FlushTurn ==
    /\ pc = "udp_flush"
    /\ parsePacket(chip)
    /\ UNCHANGED nops

\* read() without the test of _remaining
EthernetUDP_read_Mut ==
    /\ CallBegins
    /\ LET r == recv(Fresh, udp.sock, 1)
       IN  IF r.ret > 0
           THEN /\ chip' = r.ch
                /\ udp' = [udp EXCEPT !.remaining = (@ - 1) % U16]
                /\ ret' = Returned("udp_read", "udp", ByteVal(r.data[1]), udp.sock,
                                   <<>>, r.data)
           ELSE /\ chip' = Fresh
                /\ ret' = Returned("udp_read", "udp", -1, udp.sock, <<>>, <<>>)
                /\ UNCHANGED udp
    /\ UNCHANGED <<local_port, srcport, server_port, sock, werr, pc, cur, narr, nconn>>

\* EthernetUDP::read(); the result records the byte taken from the buffer
EthernetUDP_read ==
    /\ CallBegins
    /\ LET r == recv(Fresh, udp.sock, 1)
       IN  IF udp.remaining > 0 /\ r.ret > 0
           THEN /\ chip' = r.ch
                /\ udp' = [udp EXCEPT !.remaining = @ - 1]
                /\ ret' = Returned("udp_read", "udp", ByteVal(r.data[1]), udp.sock,
                                   <<>>, r.data)
           ELSE /\ chip' = Fresh
                /\ ret' = Returned("udp_read", "udp", -1, udp.sock, <<>>, <<>>)
                /\ UNCHANGED udp
    /\ UNCHANGED <<local_port, srcport, server_port, sock, werr, pc, cur, narr, nconn>>

\* EthernetUDP::read(buffer, len); the result records the bytes copied
EthernetUDP_readBuf(len) ==
    /\ CallBegins
    /\ LET r == recv(Fresh, udp.sock, IF udp.remaining <= len THEN udp.remaining ELSE len)
       IN  IF udp.remaining > 0 /\ r.ret > 0
           THEN /\ chip' = r.ch
                /\ udp' = [udp EXCEPT !.remaining = @ - r.ret]
                /\ ret' = Returned("udp_readBuf", "udp", r.ret, udp.sock, <<len>>, r.data)
           ELSE /\ chip' = Fresh
                /\ ret' = Returned("udp_readBuf", "udp", -1, udp.sock, <<len>>, <<>>)
                /\ UNCHANGED udp
    /\ UNCHANGED <<local_port, srcport, server_port, sock, werr, pc, cur, narr, nconn>>

UdpReadLens == {1, 2}

InitUdpRecv == InitUdp({UdpBegun})

\* Receiving datagrams: the UDP object reading what arrives on its socket
NextUdpRecv ==
    \/ EthernetUDP_parsePacket
    \/ EthernetUDP_read
    \/ \E n \in UdpReadLens : EthernetUDP_readBuf(n)
    \/ \E s \in Sockets, n \in UdpPayloadLens : PeerDatagram(s, n)

SpecUdpRecv == InitUdpRecv /\ [][NextUdpRecv]_vars

\* the bytes b[from .. from + n - 1] of seq: are they the payload bytes of one
\* datagram d, and is what follows them the start of a header (or nothing)?
PayloadOf(seq, n, d) ==
    /\ Len(seq) >= n
    /\ \A i \in 1 .. n : ByteKind(seq[i]) = PAYLOAD /\ ByteDgram(seq[i]) = d
    /\ Len(seq) > n => ByteKind(seq[n + 1]) = HEADER /\ ByteIdx(seq[n + 1]) = 0

\* the 8 bytes of h are the header of one datagram, in order
HeaderOfOne(h) ==
    /\ Len(h) = 8
    /\ \A i \in 1 .. 8 : /\ ByteKind(h[i]) = HEADER
                         /\ ByteIdx(h[i]) = i - 1
                         /\ ByteDgram(h[i]) = ByteDgram(h[1])

\* C20: parsePacket() with data pending (beyond the unread payload it first
\* discards) takes exactly the 8 header bytes of the next datagram, sets
\* remoteIP / remotePort from them and returns the payload length, which is
\* the number of payload bytes of that datagram now at the head of the
\* buffer; a read() delivers bytes from the head of the buffer, no more than
\* the budget left, and takes them off the budget; and always the budget
\* covers payload bytes of one datagram only, followed by a header
C20_ParsePacketFramesDatagrams ==
    /\ [](udp.sock # MAX_SOCK_NUM /\ pc = "idle" =>
             \E d \in 0 .. MaxArrive + 1 :
                 PayloadOf(chip.rxq[udp.sock], udp.remaining, d))
    /\ [][(CallOf("parsePacket") /\ udp.sock # MAX_SOCK_NUM
              /\ Len(chip.rxq[udp.sock]) > udp.remaining)
          => LET q == chip.rxq[udp.sock]
                 h == ret'.data
             IN  /\ h = SubSeq(q, udp.remaining + 1, udp.remaining + 8)
                 /\ HeaderOfOne(h)
                 /\ chip'.rxq[udp.sock] = SubSeq(q, udp.remaining + 9, Len(q))
                 /\ udp'.remoteIP = [i \in 1 .. 4 |-> ByteVal(h[i])]
                 /\ udp'.remotePort = ByteVal(h[5]) * U8 + ByteVal(h[6])
                 /\ ret'.val = ByteVal(h[7]) * U8 + ByteVal(h[8])
                 /\ udp'.remaining = ret'.val
                 /\ PayloadOf(chip'.rxq[udp.sock], ret'.val, ByteDgram(h[1]))]_vars
    /\ [][((CallOf("udp_read") \/ CallOf("udp_readBuf")) /\ udp.sock # MAX_SOCK_NUM)
          => LET q == chip.rxq[udp.sock]
                 n == Len(ret'.data)
             IN  /\ n <= udp.remaining
                 /\ ret'.data = SubSeq(q, 1, n)
                 /\ chip'.rxq[udp.sock] = SubSeq(q, n + 1, Len(q))
                 /\ udp'.remaining = udp.remaining - n
                 /\ udp'.sock = udp.sock]_vars

\* parsePacket() has returned the payload length of the second datagram,
\* having first discarded a payload byte of the first that a read() before
\* it had left unread
C20_Witness ==
    /\ ret.op = "parsePacket"
    /\ ret.val = 2
    /\ ByteDgram(ret.data[1]) = 2
    /\ ret.last[1] \in {"udp_read", "udp_readBuf"}
    /\ ret.last[3] # -1
    /\ Cardinality({i \in DOMAIN chip.log : chip.log[i] = <<"cmd", ret.s, "RECV">>}) = 2

\* ------------------------------------------------------------------------
\* EthernetUDP: multicast
\* ------------------------------------------------------------------------
IP_MCAST == <<239, 255, 1, 1>>
IP_MCAST_LOW == <<224, 0, 0, 251>>

\* isMulticastGroup without the upper end of the range
isMulticastGroup_Mut(ip) == ip[1] >= 224

\* EthernetUDP::isMulticastGroup
isMulticastGroup(ip) == ip[1] >= 224 /\ ip[1] <= 239

\* EthernetUDP::beginMulticast(multicast_ip, port); the result records whether
\* a socket was CLOSED or FIN_WAIT when the call began
EthernetUDP_beginMulticast(ip, port) ==
    /\ CallBegins
    /\ LET wasFree == \E i \in Sockets : chip.sr[i] \in {CLOSED, FIN_WAIT}
           c0 == IF udp.sock # MAX_SOCK_NUM THEN close(Fresh, udp.sock) ELSE Fresh
           sp0 == IF udp.sock # MAX_SOCK_NUM THEN [server_port EXCEPT ![udp.sock] = 0]
                  ELSE server_port
           s == UdpScan(c0)
           o == socket(c0, local_port, s, BitOr(SnMR_UDP, SnMR_MULTI), port, 0)
       IN  IF ~isMulticastGroup(ip)
           THEN /\ chip' = Fresh
                /\ ret' = Returned("beginMulticast", "udp", 0, udp.sock, <<ip, port>>,
                                   <<wasFree>>)
                /\ UNCHANGED <<local_port, server_port, udp>>
           ELSE IF s = MAX_SOCK_NUM
           THEN /\ chip' = c0
                /\ server_port' = sp0
                /\ udp' = [udp EXCEPT !.sock = MAX_SOCK_NUM]
                /\ ret' = Returned("beginMulticast", "udp", 0, MAX_SOCK_NUM, <<ip, port>>,
                                   <<wasFree>>)
                /\ UNCHANGED local_port
           ELSE /\ chip' = o.ch
                /\ local_port' = o.lp
                /\ server_port' = sp0
                /\ udp' = IF o.ret # 0
                          THEN [udp EXCEPT !.sock = s, !.port = port, !.remaining = 0]
                          ELSE [udp EXCEPT !.sock = s]
                /\ ret' = Returned("beginMulticast", "udp", IF o.ret # 0 THEN 1 ELSE 0, s,
                                   <<ip, port>>, <<wasFree>>)
    /\ UNCHANGED <<srcport, sock, werr, pc, cur, narr, nconn>>

\* Multicast: the UDP object taking sockets beside a TCP client
NextMulticast ==
    \/ \E ip \in {IP_MCAST, IP_MCAST_LOW, IP_PEER} : EthernetUDP_beginMulticast(ip, UdpPort)
    \/ \E p \in UdpPorts : EthernetUDP_begin(p)
    \/ EthernetUDP_stop
    \/ \E c \in OutClients : EthernetClient_connect(c, IP_PEER, 80)
    \/ ConnectWhile
    \/ ConnectIf
    \/ \E s \in Sockets : PeerAccepts(s)
    \/ \E s \in Sockets : PeerFin(s)
    \/ \E s \in Sockets : ChipCloses(s)

SpecMulticast == Init /\ [][NextMulticast]_vars

\* C21: beginMulticast(groupIp, port) called with a group address and a
\* socket CLOSED or FIN_WAIT returns 1, and the socket it took is open in
\* UDP mode with the multicast flag (Sn_MR = UDP | MULTI) and Sn_PORT = port
C21_BeginMulticastOpensSocket ==
    (ret.op = "beginMulticast" /\ isMulticastGroup(ret.arg[1]) /\ ret.data[1])
        => /\ ret.val = 1
           /\ udp.sock # MAX_SOCK_NUM
           /\ chip.sr[udp.sock] = SR_UDP
           /\ chip.mr[udp.sock] = BitOr(SnMR_UDP, SnMR_MULTI)
           /\ chip.port[udp.sock] = ret.arg[2]

\* EthernetUDP::calculateMulticastMAC with ip[1] copied unmasked
calculateMulticastMAC_Mut(ip) == <<1, 0, 94, ip[2], ip[3], ip[4]>>

\* EthernetUDP::calculateMulticastMAC: the six bytes written to mac;
\* ip[1] & 0x7F keeps the low seven bits
calculateMulticastMAC(ip) == <<1, 0, 94, ip[2] % 128, ip[3], ip[4]>>

\* addresses joinMulticastGroup is called with
JoinIPs ==
    {<<a, b, c, d>> : a \in {224, 239}, b \in {0, 1, 127, 128, 255},
                      c \in {0, 1, 255}, d \in {0, 1, 255}} \cup {IP_PEER}

\* the program at start, about to call joinMulticastGroup with an address
InitJoin ==
    /\ chip = ChipInit
    /\ local_port = 0
    /\ srcport = SrcPortInit
    /\ server_port = [s \in Sockets |-> 0]
    /\ sock = [c \in Clients |-> MAX_SOCK_NUM]
    /\ werr = [c \in Clients |-> FALSE]
    /\ udp = UdpInit
    /\ pc = "idle"
    /\ \E ip \in JoinIPs : cur = [NoLocals EXCEPT !.arg = <<ip>>]
    /\ ret = NoCall
    /\ nops = 0
    /\ narr = 0
    /\ nconn = 0

\* EthernetUDP::joinMulticastGroup(group_ip); the result records the MAC
\* computed into multicast_mac
joinMulticastGroup(ip) ==
    /\ CallBegins
    /\ ret' = IF isMulticastGroup(ip)
              THEN Returned("joinMulticastGroup", "udp", 1, udp.sock, <<ip>>,
                            calculateMulticastMAC(ip))
              ELSE Returned("joinMulticastGroup", "udp", 0, udp.sock, <<ip>>, <<>>)
    /\ chip' = Fresh
    /\ UNCHANGED <<local_port, srcport, server_port, sock, werr, udp, pc, cur, narr, nconn>>

\* ... called with the address of InitJoin
EthernetUDP_joinMulticastGroup == joinMulticastGroup(cur.arg[1])

\* EthernetUDP::leaveMulticastGroup(group_ip)
leaveMulticastGroup(ip) ==
    /\ CallBegins
    /\ ret' = Returned("leaveMulticastGroup", "udp", IF isMulticastGroup(ip) THEN 1 ELSE 0,
                       udp.sock, <<ip>>, <<>>)
    /\ chip' = Fresh
    /\ UNCHANGED <<local_port, srcport, server_port, sock, werr, udp, pc, cur, narr, nconn>>

NextJoin == EthernetUDP_joinMulticastGroup

SpecJoin == InitJoin /\ [][NextJoin]_vars

\* C22: for a multicast address a.b.c.d the MAC computed is
\* 01:00:5E:(b & 0x7F):c:d: the prefix, then the low 23 bits of the address;
\* 239.255.1.1 gives 01:00:5E:7F:01:01
C22_MulticastMacLow23Bits ==
    (ret.op = "joinMulticastGroup" /\ ret.val = 1)
        => LET ip == ret.arg[1]
               mac == ret.data
               low23 == (ip[2] * 65536 + ip[3] * 256 + ip[4]) % 8388608
           IN  /\ Len(mac) = 6
               /\ mac[1] = 1 /\ mac[2] = 0 /\ mac[3] = 94
               /\ \A i \in 4 .. 6 : mac[i] \in 0 .. 255
               /\ mac[4] * 65536 + mac[5] * 256 + mac[6] = low23
               /\ mac[5] = ip[3] /\ mac[6] = ip[4]
               /\ ip = <<239, 255, 1, 1>> => mac = <<1, 0, 94, 127, 1, 1>>

\* the MAC of an address whose second byte has its top bit set was computed
C22_Witness ==
    /\ ret.op = "joinMulticastGroup"
    /\ ret.val = 1
    /\ ret.arg[1] = <<239, 255, 1, 1>>
    /\ ret.data = <<1, 0, 94, 127, 1, 1>>

\* ------------------------------------------------------------------------
\* Source ports
\* ------------------------------------------------------------------------
\* numbers of udp.begin(0); udp.stop() pairs and of refused connects that the
\* program has behind it
UdpCycles == {0, U16 - 2, U16 - 1}
ConnectCycles == {0, U16 - 2 - SrcPortInit, U16 - 1 - SrcPortInit}

\* the chip and the counters after k times udp.begin(0); udp.stop() and then
\* j times a connect the peer refused, all on socket 0 (k < 65536,
\* j < 65536 - 1024: no counter has wrapped yet)
AfterCycles(k, j) ==
    LET c1 == IF k = 0 THEN ChipInit
              ELSE close(socket(ChipInit, k - 1, 0, SnMR_UDP, 0, 0).ch, 0)
        c2 == IF j = 0 THEN c1
              ELSE LET o == socket(c1, k, 0, SnMR_TCP, SrcPortInit + j, 0)
                       q == connect(o.ch, 0, IP_PEER, 80).ch
                   IN  [q EXCEPT !.sr[0] = CLOSED, !.ir[0] = @ \cup {TIMEOUT}]
    IN  [ch |-> [c2 EXCEPT !.log = <<>>], lp |-> k, sp |-> SrcPortInit + j]

InitPorts ==
    /\ \E k \in UdpCycles, j \in ConnectCycles :
         /\ chip = AfterCycles(k, j).ch
         /\ local_port = AfterCycles(k, j).lp
         /\ srcport = AfterCycles(k, j).sp
    /\ server_port = [s \in Sockets |-> 0]
    /\ sock = [c \in Clients |-> MAX_SOCK_NUM]
    /\ werr = [c \in Clients |-> FALSE]
    /\ udp = UdpInit
    /\ pc = "idle"
    /\ cur = NoLocals
    /\ ret = NoCall
    /\ nops = 0
    /\ narr = 0
    /\ nconn = 0

\* Source ports: sockets opened by connect() and by udp.begin(0)
NextPorts ==
    \/ \E c \in OutClients : EthernetClient_connect(c, IP_PEER, 80)
    \/ ConnectWhile
    \/ ConnectIf
    \/ EthernetUDP_begin(0)
    \/ EthernetUDP_stop
    \/ \E s \in Sockets : PeerAccepts(s)
    \/ \E s \in Sockets : ChipCloses(s)

SpecPorts == InitPorts /\ [][NextPorts]_vars

\* C23: no socket is ever opened with source port 0, whether the port comes
\* from the counter of Client.connect or from socket() called with port 0
C23_NoSourcePortZero ==
    \A s \in Sockets : chip.sr[s] # CLOSED => chip.port[s] # 0

OtherInstance_connect ==
    /\ CallBegins
    /\ srcport' = NextSrcPort(srcport)
    /\ chip' = Fresh
    /\ ret' = Returned("connect", "other", 1, MAX_SOCK_NUM, <<IP_PEER, 80>>, <<>>)
    /\ UNCHANGED <<local_port, server_port, sock, werr, udp, pc, cur, narr, nconn>>

\* The UDP object of another chip instance calls begin(0), that chip having
\* a socket to give: socket() increments the file-static local_port
OtherInstance_udpBegin ==
    /\ CallBegins
    /\ local_port' = (local_port + 1) % U16
    /\ chip' = Fresh
    /\ ret' = Returned("udp_begin", "other", 1, MAX_SOCK_NUM, <<0>>, <<>>)
    /\ UNCHANGED <<srcport, server_port, sock, werr, udp, pc, cur, narr, nconn>>

\* Two instances: this chip's clients and UDP object, and calls on another
NextInstances ==
    \/ \E c \in OutClients : EthernetClient_connect(c, IP_PEER, 80)
    \/ ConnectWhile
    \/ ConnectIf
    \/ EthernetUDP_begin(0)
    \/ EthernetUDP_stop
    \/ OtherInstance_connect
    \/ OtherInstance_udpBegin
    \/ \E s \in Sockets : PeerAccepts(s)
    \/ \E s \in Sockets : ChipCloses(s)

SpecInstances == Init /\ [][NextInstances]_vars

\* C25: chip instances are independent: a call on another instance changes
\* nothing that this instance's source ports and socket states are drawn
\* from, so this instance gets the same ports whatever the other one does
C25_InstancesIndependent ==
    [][ret'.who = "other" /\ nops' = nops + 1
          => UNCHANGED <<srcport, local_port, [chip EXCEPT !.log = <<>>], sock, udp,
                         server_port>>]_vars

\* ------------------------------------------------------------------------
\* W5100: socket buffers in the chip's memory
\* ------------------------------------------------------------------------
W5100_MAX_SOCK_NUM == 4
W5100_TX_MEM_BASE == 16384
W5100_RX_MEM_BASE == 24576
W5100_BUF_SIZE == 2048
W5100_MEM_SIZE == 8192

RECURSIVE BitAnd(_, _)
BitAnd(a, b) ==
    IF a = 0 \/ b = 0 THEN 0
    ELSE (IF (a % 2 = 1) /\ (b % 2 = 1) THEN 1 ELSE 0) + 2 * BitAnd(a \div 2, b \div 2)

\* the TX memory of the chip before anything was written: the byte at
\* physical address a is element a - W5100_TX_MEM_BASE + 1; likewise the RX
\* memory from W5100_RX_MEM_BASE
TxMemInit == SubSeq([k \in 1 .. W5100_MEM_SIZE |-> Stale], 1, W5100_MEM_SIZE)

\* W5100Chip::writeData(socket, dst, src, len): the turns lo .. hi - 1 of the
\* loop, in order (the first half of them, then the second; the test of Len
\* has the first half evaluated before the second starts); mem is the TX
\* memory
RECURSIVE W5100Chip_writeData(_, _, _, _, _, _)
W5100Chip_writeData(mem, sn, dst, src, lo, hi) ==
    IF lo >= hi THEN mem
    ELSE IF hi = lo + 1
    THEN LET base_addr == (W5100_TX_MEM_BASE + sn * W5100_BUF_SIZE) % U16
             mask == W5100_BUF_SIZE - 1
             addr == (base_addr + BitAnd(dst + lo, mask)) % U16
         IN  [mem EXCEPT ![addr - W5100_TX_MEM_BASE + 1] = src[lo + 1]]
    ELSE LET mid == (lo + hi) \div 2
             first == W5100Chip_writeData(mem, sn, dst, src, lo, mid)
         IN  IF Len(first) = Len(mem)
             THEN W5100Chip_writeData(first, sn, dst, src, mid, hi)
             ELSE first

\* W5100Chip::readData with the mask of a 1KB buffer
W5100Chip_readData_Mut(rxmem, sn, src, len) ==
    LET base_addr == (W5100_RX_MEM_BASE + sn * W5100_BUF_SIZE) % U16
        mask == W5100_BUF_SIZE \div 2 - 1
    IN  [k \in 1 .. len |->
            rxmem[((base_addr + BitAnd(src + (k - 1), mask)) % U16) - W5100_RX_MEM_BASE + 1]]

\* W5100Chip::readData(socket, src, dst, len): the bytes copied; rxmem is the
\* RX memory by physical address
W5100Chip_readData(rxmem, sn, src, len) ==
    LET base_addr == (W5100_RX_MEM_BASE + sn * W5100_BUF_SIZE) % U16
        mask == W5100_BUF_SIZE - 1
    IN  [k \in 1 .. len |->
            rxmem[((base_addr + BitAnd(src + (k - 1), mask)) % U16) - W5100_RX_MEM_BASE + 1]]

\* W5100Class::send_data_processing: the turns lo .. hi - 1 of the loop, in
\* order; ptr is a uint16_t incremented in every turn, tx_wr its value
\* before the loop
RECURSIVE W5100Class_send_data(_, _, _, _, _, _)
W5100Class_send_data(mem, s, tx_wr, data, lo, hi) ==
    IF lo >= hi THEN mem
    ELSE IF hi = lo + 1
    THEN LET ptr == (tx_wr + lo) % U16
             tx_base == W5100_TX_MEM_BASE + s * W5100_BUF_SIZE
             mask == W5100_BUF_SIZE - 1
         IN  [mem EXCEPT ![tx_base + BitAnd(ptr, mask) - W5100_TX_MEM_BASE + 1] = data[lo + 1]]
    ELSE LET mid == (lo + hi) \div 2
             first == W5100Class_send_data(mem, s, tx_wr, data, lo, mid)
         IN  IF Len(first) = Len(mem)
             THEN W5100Class_send_data(first, s, tx_wr, data, mid, hi)
             ELSE first

\* W5100Class::read_data(s, src, dst, len): the bytes copied
W5100Class_read_data(rxmem, s, src, len) ==
    LET rx_base == W5100_RX_MEM_BASE + s * W5100_BUF_SIZE
        mask == W5100_BUF_SIZE - 1
    IN  [k \in 1 .. len |->
            rxmem[rx_base + BitAnd((src + (k - 1)) % U16, mask) - W5100_RX_MEM_BASE + 1]]

\* the chip looped back: the RX memory holds at every offset what the TX
\* memory holds at that offset
LoopedBack(mem) == mem

\* the bytes written: byte i (from 0) has the value i mod 251
TestBytes(n) == [k \in 1 .. n |-> (k - 1) % 251]

BufPointers == {0, 2040, 2047, 2048, 65530, 65535}
BufLengths == {0, 1, 16, 2048}

\* the program about to write cur.arg[3] bytes at pointer cur.arg[2] of
\* socket cur.arg[1]
InitBuf ==
    /\ chip = ChipInit
    /\ local_port = 0
    /\ srcport = SrcPortInit
    /\ server_port = [s \in Sockets |-> 0]
    /\ sock = [c \in Clients |-> MAX_SOCK_NUM]
    /\ werr = [c \in Clients |-> FALSE]
    /\ udp = UdpInit
    /\ pc = "idle"
    /\ \E s \in 0 .. W5100_MAX_SOCK_NUM - 1, p \in BufPointers, n \in BufLengths :
           cur = [NoLocals EXCEPT !.arg = <<s, p, n>>]
    /\ ret = NoCall
    /\ nops = 0
    /\ narr = 0
    /\ nconn = 0

\* writeData then, the chip looped back, readData with the same socket,
\* pointer and length; the result records the bytes read and the TX memory
W5100Chip_roundTrip ==
    /\ pc = "idle"
    /\ nops = 0
    /\ nops' = 1
    /\ LET mem == W5100Chip_writeData(TxMemInit, cur.arg[1], cur.arg[2],
                                      TestBytes(cur.arg[3]), 0, cur.arg[3])
       IN  ret' = Returned("roundTrip", "W5100Chip", cur.arg[3], cur.arg[1], cur.arg,
                           <<W5100Chip_readData(LoopedBack(mem), cur.arg[1], cur.arg[2],
                                                cur.arg[3]), mem>>)
    /\ UNCHANGED <<chip, local_port, srcport, server_port, sock, werr, udp, pc, cur,
                   narr, nconn>>

\* the same with send_data_processing's loop and read_data of W5100Class
W5100Class_roundTrip ==
    /\ pc = "idle"
    /\ nops = 0
    /\ nops' = 1
    /\ LET mem == W5100Class_send_data(TxMemInit, cur.arg[1], cur.arg[2],
                                       TestBytes(cur.arg[3]), 0, cur.arg[3])
       IN  ret' = Returned("roundTrip", "W5100Class", cur.arg[3], cur.arg[1], cur.arg,
                           <<W5100Class_read_data(LoopedBack(mem), cur.arg[1], cur.arg[2],
                                                  cur.arg[3]), mem>>)
    /\ UNCHANGED <<chip, local_port, srcport, server_port, sock, werr, udp, pc, cur,
                   narr, nconn>>

NextBuf ==
    \/ W5100Chip_roundTrip
    \/ W5100Class_roundTrip

SpecBuf == InitBuf /\ [][NextBuf]_vars

\* C26: writing N <= 2048 bytes at pointer P of socket s and reading N bytes
\* at P gives the bytes back in order; byte i is at
\* bufferBase(s) + ((P + i) mod 2048), and nothing outside the 2048-byte
\* window of s is written
C26_BufferRoundTrip ==
    ret.op = "roundTrip" =>
        LET s == ret.arg[1]
            P == ret.arg[2]
            N == ret.arg[3]
            base == W5100_TX_MEM_BASE + s * W5100_BUF_SIZE
            mem == ret.data[2]
        IN  /\ ret.data[1] = TestBytes(N)
            /\ \A i \in 0 .. N - 1 :
                   mem[(base + ((P + i) % W5100_BUF_SIZE)) - W5100_TX_MEM_BASE + 1]
                       = TestBytes(N)[i + 1]
            /\ \A k \in DOMAIN mem :
                   mem[k] # Stale
                       => k + W5100_TX_MEM_BASE - 1 \in base .. base + W5100_BUF_SIZE - 1

\* a full buffer was written across the 16-bit overflow of the pointer into
\* the last socket's window and read back
C26_Witness ==
    /\ ret.op = "roundTrip"
    /\ ret.arg = <<W5100_MAX_SOCK_NUM - 1, 65530, 2048>>
    /\ ret.data[1] = TestBytes(2048)
    /\ ret.data[2][3 * W5100_BUF_SIZE + 1] = 6

\* ------------------------------------------------------------------------
\* Reading the size registers
\* ------------------------------------------------------------------------
\* values Sn_TX_FSR / Sn_RX_RSR may hold when one of their bytes is read
RegValues == {0, 255, 256}

\* a 16-bit register read: the high byte is read, then the low byte, and the
\* register may have gone from v1 to v2 in between
Read16(v1, v2) == ((v1 \div U8) * U8) + (v2 % U8)

SizeImpls == {"W5500", "W5100Class", "W5100Chip"}
SizeGetters == {"getTXFreeSize", "getRXReceivedSize"}

\* the last two reads of the register once v was read after reads
LastTwo(reads, v) == IF reads = <<>> THEN <<v>> ELSE <<reads[Len(reads)], v>>

\* getTXFreeSize(s) / getRXReceivedSize(s) of one of the chip classes is
\* called: uint16_t val = 0, val1 = 0 (cur.i, cur.sret)
SizeCall(impl, getter) ==
    /\ CallBegins
    /\ chip' = Fresh
    /\ pc' = "size_read1"
    /\ cur' = [NoLocals EXCEPT !.who = impl, !.caller = getter, !.s = 0]
    /\ ret' = NoCall
    /\ UNCHANGED <<local_port, srcport, server_port, sock, werr, udp, narr, nconn>>

\* the call returns val; the result records the last two register reads
SizeReturns(val, reads) ==
    /\ pc' = "idle"
    /\ cur' = NoLocals
    /\ ret' = [Returned(cur.caller, cur.who, val, cur.s, <<>>, reads) EXCEPT !.n = nops]

\* W5500 / W5100Class: val1 = readSn..(s); if (val1 != 0) ...; and the test
\* of the loop when val1 is 0. W5100Chip: the one read, which is returned
SizeRead1 ==
    /\ pc = "size_read1"
    /\ \E v1 \in RegValues, v2 \in RegValues :
         LET v == Read16(v1, v2)
             reads == LastTwo(cur.written, v)
         IN  IF cur.who = "W5100Chip"
             THEN SizeReturns(v, reads)
             ELSE IF v # 0
             THEN /\ pc' = "size_read2"
                  /\ cur' = [cur EXCEPT !.sret = v, !.written = reads]
                  /\ ret' = NoCall
             ELSE IF cur.i = v
             THEN SizeReturns(cur.i, reads)
             ELSE /\ cur' = [cur EXCEPT !.sret = v, !.written = reads]
                  /\ ret' = NoCall
                  /\ UNCHANGED pc
    /\ UNCHANGED <<chip, local_port, srcport, server_port, sock, werr, udp, nops,
                   narr, nconn>>

\* W5500 / W5100Class: val = readSn..(s); } while (val != val1);
SizeRead2 ==
    /\ pc = "size_read2"
    /\ \E v1 \in RegValues, v2 \in RegValues :
         LET v == Read16(v1, v2)
             reads == LastTwo(cur.written, v)
         IN  IF v = cur.sret
             THEN SizeReturns(v, reads)
             ELSE /\ pc' = "size_read1"
                  /\ cur' = [cur EXCEPT !.i = v, !.written = reads]
                  /\ ret' = NoCall
    /\ UNCHANGED <<chip, local_port, srcport, server_port, sock, werr, udp, nops,
                   narr, nconn>>

NextSizes ==
    \/ \E impl \in SizeImpls, getter \in SizeGetters : SizeCall(impl, getter)
    \/ SizeRead1
    \/ SizeRead2

SpecSizes == Init /\ [][NextSizes]_vars

\* C27: getTXFreeSize and getRXReceivedSize of either chip family return v
\* only if the last two reads of the register both returned v
C27_SizeReadTwice ==
    ret.op \in SizeGetters => ret.data = <<ret.val, ret.val>>

\* ------------------------------------------------------------------------
\* connect() when every socket is taken
\* ------------------------------------------------------------------------
\* the chip after the client has connected socket s from source port sp to
\* the peer and the peer has accepted
ConnectedTo(ch, lp, s, sp) ==
    LET o == socket(ch, lp, s, SnMR_TCP, sp, 0)
        k == connect(o.ch, s, IP_PEER, ServerPort)
    IN  [k.ch EXCEPT !.sr[s] = ESTABLISHED, !.ir[s] = @ \cup {IR_CON}, !.log = <<>>]

\* the eight sockets are taken: the servers listen on the first k, the
\* clients c1 and c2 have connected the others; no peer connects to the
\* listening sockets, which stay taken
ExhaustedShapes == {7, 8}

InitExhausted ==
    /\ \E k \in ExhaustedShapes :
         LET b == BegunTimes(k)
             one == IF k < MAX_SOCK_NUM
                    THEN ConnectedTo(b.ch, b.lp, ConnectScan(b.ch), NextSrcPort(SrcPortInit))
                    ELSE b.ch
             two == IF k + 1 < MAX_SOCK_NUM
                    THEN ConnectedTo(one, b.lp, ConnectScan(one),
                                     NextSrcPort(NextSrcPort(SrcPortInit)))
                    ELSE one
         IN  /\ chip = [two EXCEPT !.log = <<>>]
             /\ local_port = b.lp
             /\ server_port = b.sp
             /\ srcport = IF k + 1 < MAX_SOCK_NUM THEN NextSrcPort(NextSrcPort(SrcPortInit))
                          ELSE IF k < MAX_SOCK_NUM THEN NextSrcPort(SrcPortInit)
                          ELSE SrcPortInit
             /\ sock = [c \in Clients |->
                          IF c = "c1" /\ k < MAX_SOCK_NUM THEN ConnectScan(b.ch)
                          ELSE IF c = "c2" /\ k + 1 < MAX_SOCK_NUM THEN ConnectScan(one)
                          ELSE MAX_SOCK_NUM]
    /\ werr = [c \in Clients |-> FALSE]
    /\ udp = UdpInit
    /\ pc = "idle"
    /\ cur = NoLocals
    /\ ret = NoCall
    /\ nops = 0
    /\ narr = 0
    /\ nconn = 0

NextExhausted ==
    \/ \E c \in OutClients : EthernetClient_connect(c, IP_PEER, ServerPort)
    \/ ConnectWhile
    \/ ConnectIf
    \/ \E c \in OutClients : EthernetClient_stop(c)
    \/ StopWhile
    \/ StopIf
    \/ \E s \in Sockets : PeerAccepts(s)
    \/ \E s \in Sockets : PeerFin(s)
    \/ \E s \in Sockets : ChipCloses(s)

SpecExhausted == InitExhausted /\ [][NextExhausted]_vars

\* the step is a call of connect() by client c
ConnectCalledBy(c) ==
    /\ nops' = nops + 1
    /\ \/ ret'.op = "connect" /\ ret'.who = c
       \/ pc' = "connect_while" /\ cur'.who = c

\* connect() has nothing to allocate: the client holds a socket, or no
\* socket is in CLOSED, FIN_WAIT or CLOSE_WAIT
NoAllocation(c) ==
    \/ sock[c] # MAX_SOCK_NUM
    \/ \A i \in Sockets : chip.sr[i] \notin {CLOSED, FIN_WAIT, CLOSE_WAIT}

\* C28: when the client already holds a socket or no socket is in CLOSED,
\* FIN_WAIT or CLOSE_WAIT, connect returns 0, issues no command and leaves
\* every register and the socket index of the client as they were; once a
\* socket has been released, a connect of a client that holds none takes a
\* released socket and starts the connection
C28_ConnectFailsRecoverably ==
    [][\A c \in OutClients :
         ConnectCalledBy(c) =>
           IF NoAllocation(c)
           THEN /\ ret'.op = "connect" /\ ret'.val = 0
                /\ chip'.log = <<>>
                /\ [chip' EXCEPT !.log = <<>>] = [chip EXCEPT !.log = <<>>]
                /\ sock' = sock
                /\ pc' = "idle"
           ELSE /\ sock'[c] \in Sockets
                /\ chip.sr[sock'[c]] \in {CLOSED, FIN_WAIT, CLOSE_WAIT}
                /\ chip'.sr[sock'[c]] = SYNSENT
                /\ pc' = "connect_while"]_vars

\* connect has returned 0 while every socket is taken and nothing has been
\* released since the start, with no command issued
C28_Witness ==
    /\ ret.op = "connect"
    /\ ret.val = 0
    /\ ret.n >= 1
    /\ chip.log = <<>>
    /\ \A i \in Sockets : chip.sr[i] \notin {CLOSED, FIN_WAIT, CLOSE_WAIT}

\* ------------------------------------------------------------------------
\* listen(chip, s) called in any status
\* ------------------------------------------------------------------------
ListenSockets == {0, MAX_SOCK_NUM - 1}

\* the application calls socket(chip, s, protocol, ServerPort, 0)
Socket_socket(s, protocol) ==
    /\ CallBegins
    /\ LET o == socket(Fresh, local_port, s, protocol, ServerPort, 0)
       IN  /\ chip' = o.ch
           /\ local_port' = o.lp
           /\ ret' = Returned("socket", "app", o.ret, s, <<protocol>>, <<>>)
    /\ UNCHANGED <<srcport, server_port, sock, werr, udp, pc, cur, narr, nconn>>

\* the application calls listen(chip, s); the result records the status the
\* socket had
Socket_listen(s) ==
    /\ CallBegins
    /\ LET l == listen(Fresh, s)
       IN  /\ chip' = l.ch
           /\ ret' = Returned("listen", "app", l.ret, s, <<chip.sr[s]>>, <<>>)
    /\ UNCHANGED <<local_port, srcport, server_port, sock, werr, udp, pc, cur,
                   narr, nconn>>

NextListen ==
    \/ \E s \in ListenSockets, p \in {SnMR_TCP, SnMR_UDP} : Socket_socket(s, p)
    \/ \E s \in ListenSockets : Socket_listen(s)
    \/ \E s \in ListenSockets : PeerConnects(s)
    \/ \E s \in ListenSockets : PeerFin(s)
    \/ \E s \in ListenSockets : ChipCloses(s)

SpecListen == Init /\ [][NextListen]_vars

\* C29: listen(s) on a socket in INIT issues the LISTEN command and returns
\* 1; in every other status it returns 0, issues no command and writes no
\* register
C29_ListenOnlyFromInit ==
    [][\A s \in ListenSockets :
         (nops' = nops + 1 /\ ret'.op = "listen" /\ ret'.s = s) =>
           IF chip.sr[s] = INIT
           THEN /\ ret'.val = 1
                /\ chip'.log = <<<<"cmd", s, "LISTEN">>>>
                /\ chip'.sr[s] = LISTEN
           ELSE /\ ret'.val = 0
                /\ chip'.log = <<>>
                /\ [chip' EXCEPT !.log = <<>>] = [chip EXCEPT !.log = <<>>]]_vars

\* listen has returned 0 on a socket with a connection, which it left alone
C29_Witness ==
    /\ ret.op = "listen"
    /\ ret.val = 0
    /\ ret.arg = <<ESTABLISHED>>
    /\ chip.sr[ret.s] = ESTABLISHED
    /\ chip.log = <<>>

\* ------------------------------------------------------------------------
\* send(chip, s, buf, len) called in any status
\* ------------------------------------------------------------------------
SendLens == {0, 1, 3000}

\* the application calls send(chip, s, buf, len): lines 88-95
Socket_send(s, len) ==
    /\ CallBegins
    /\ chip' = Fresh
    /\ pc' = "send_free"
    /\ cur' = [NoLocals EXCEPT !.who = "app", !.caller = "send", !.s = s,
                              !.arg = <<len>>, !.sret = sendClamp(len),
                              !.i = readSnTX_WR(chip, s)]
    /\ ret' = NoCall
    /\ UNCHANGED <<local_port, srcport, server_port, sock, werr, udp, narr, nconn>>

NextSendAny ==
    \/ \E s \in ListenSockets, p \in {SnMR_TCP, SnMR_UDP} : Socket_socket(s, p)
    \/ \E s \in ListenSockets : Socket_listen(s)
    \/ \E s \in ListenSockets, n \in SendLens : Socket_send(s, n)
    \/ SendFree
    \/ SendIR
    \/ SendSR
    \/ \E s \in ListenSockets : PeerConnects(s)
    \/ \E s \in ListenSockets : PeerFin(s)
    \/ \E s \in ListenSockets : ChipCloses(s)
    \/ \E s \in ListenSockets : ChipSendOk(s)

SpecSendAny == Init /\ [][NextSendAny]_vars

\* the number of payload bytes in the pieces written to a TX buffer
RECURSIVE PieceBytes(_)
PieceBytes(pieces) ==
    IF pieces = <<>> THEN 0 ELSE pieces[1][2] + PieceBytes(Tail(pieces))

SendReturnsNow == pc \in {"send_ir", "send_sr"} /\ cur.caller = "send" /\ pc' = "idle"

C32_StopClearsInterrupts ==
    (ret.op = "stop" /\ ret.s # MAX_SOCK_NUM) => chip.ir[ret.s] = {}

\* C33: sendUDP issues SEND and polls Sn_IR; it returns 1 having found
\* SEND_OK, which alone it clears, or 0 having found TIMEOUT and no SEND_OK,
\* both of which it clears, and in no other way
C33_SendUdpReturns ==
    [][/\ (pc = "idle" /\ pc' = "sendudp_ir")
            => chip'.log = <<<<"cmd", Sn(cur'.s), "SEND">>>>
       /\ (ret'.op = "endPacket" /\ pc # "sendudp_ir") => ret' = ret
       /\ (pc = "sendudp_ir" /\ pc' = "idle")
            => LET s == Sn(cur.s)
               IN  /\ ret'.op = "endPacket"
                   /\ \/ /\ ret'.val = 1
                         /\ SEND_OK \in chip.ir[s]
                         /\ chip'.ir[s] = chip.ir[s] \ {SEND_OK}
                      \/ /\ ret'.val = 0
                         /\ SEND_OK \notin chip.ir[s]
                         /\ TIMEOUT \in chip.ir[s]
                         /\ chip'.ir[s] = chip.ir[s] \ {SEND_OK, TIMEOUT}]_vars

\* endPacket has returned 0 after the chip gave up on the datagram, the
\* TIMEOUT flag cleared
C33_Witness ==
    /\ ret.op = "endPacket"
    /\ ret.val = 0
    /\ chip.tx_sent[Sn(ret.s)] # <<>>
    /\ TIMEOUT \notin chip.ir[Sn(ret.s)]

\* ------------------------------------------------------------------------
\* beginPacket() -> startUDP with every kind of destination
\* ------------------------------------------------------------------------
NextStartUdp ==
    \/ \E ip \in DestIPs, p \in {0, UdpDestPort} : EthernetUDP_beginPacket(ip, p)
    \/ \E n \in UdpWriteSizes : EthernetUDP_write(n)
    \/ EthernetUDP_endPacket
    \/ SendUdpIR
    \/ \E s \in Sockets : ChipSendOk(s)
    \/ \E s \in Sockets : ChipSendTimeout(s)

SpecStartUdp == InitUdpSend /\ [][NextStartUdp]_vars

\* startUDP has written the destination registers of the socket, and
\* nothing else
DestWritten(s, ip, p) ==
    /\ chip.log = <<<<"wr", s, "DIPR">>, <<"wr", s, "DPORT">>>>
    /\ chip.dest[s] = <<ip, p>>

\* C34 as claimed: startUDP returns 0 without a register write for the
\* destinations connect rejects, and otherwise writes the destination and
\* returns 1
C34_StartUdpLikeConnect ==
    ret.op = "beginPacket"
        => IF RejectedDest(ret.arg[1], ret.arg[2])
           THEN ret.val = 0 /\ chip.log = <<>>
           ELSE ret.val = 1 /\ DestWritten(ret.s, ret.arg[1], ret.arg[2])

\* C34: startUDP returns 0 without a register write for the address 0.0.0.0
\* and for port 0, and otherwise, 255.255.255.255 included, writes the
\* destination address and port and returns 1
C34_StartUdpRejectsZero ==
    ret.op = "beginPacket"
        => IF ret.arg[1] = <<0, 0, 0, 0>> \/ ret.arg[2] = 0
           THEN ret.val = 0 /\ chip.log = <<>>
           ELSE ret.val = 1 /\ DestWritten(ret.s, ret.arg[1], ret.arg[2])

\* beginPacket to the broadcast address has returned 1, the destination
\* written
C34_Witness ==
    /\ ret.op = "beginPacket"
    /\ ret.arg = <<IP_BCAST, UdpDestPort>>
    /\ ret.val = 1
    /\ chip.dest[ret.s] = <<IP_BCAST, UdpDestPort>>

\* ------------------------------------------------------------------------
\* The multicast calls with addresses in and out of 224.0.0.0-239.255.255.255
\* ------------------------------------------------------------------------
GroupIPs == {<<223, 255, 255, 255>>, <<224, 0, 0, 0>>, IP_MCAST,
             <<239, 255, 255, 255>>, <<240, 0, 0, 0>>, IP_PEER}

NextGroups ==
    \/ EthernetUDP_begin(UdpPort)
    \/ EthernetUDP_stop
    \/ \E ip \in GroupIPs : EthernetUDP_beginMulticast(ip, UdpPort)
    \/ \E ip \in GroupIPs : joinMulticastGroup(ip)
    \/ \E ip \in GroupIPs : leaveMulticastGroup(ip)
    \/ \E s \in Sockets : PeerData(s)

SpecGroups == Init /\ [][NextGroups]_vars

\* the first octet is that of an address in 224.0.0.0-239.255.255.255
InGroupRange(ip) == ip[1] \in 224 .. 239

\* the program is as it was, the access log of the chip aside
NothingChanged ==
    /\ chip'.log = <<>>
    /\ [chip' EXCEPT !.log = <<>>] = [chip EXCEPT !.log = <<>>]
    /\ UNCHANGED <<udp, sock, server_port, local_port, srcport>>

\* C35: beginMulticast with an address outside 224.0.0.0-239.255.255.255
\* returns 0, the UDP object keeping its socket and no register or command
\* touched; joinMulticastGroup and leaveMulticastGroup return 1 exactly for
\* the addresses in the range and change nothing
C35_MulticastArgsChecked ==
    [][nops' = nops + 1 =>
         /\ (ret'.op = "beginMulticast" /\ ~InGroupRange(ret'.arg[1]))
               => ret'.val = 0 /\ NothingChanged
         /\ ret'.op \in {"joinMulticastGroup", "leaveMulticastGroup"}
               => /\ ret'.val = (IF InGroupRange(ret'.arg[1]) THEN 1 ELSE 0)
                  /\ NothingChanged]_vars

\* beginMulticast(240.0.0.0) has returned 0 on a UDP object that holds an
\* open socket
C35_Witness ==
    /\ ret.op = "beginMulticast"
    /\ ret.arg[1] = <<240, 0, 0, 0>>
    /\ ret.val = 0
    /\ udp.sock # MAX_SOCK_NUM
    /\ chip.sr[udp.sock] = SR_UDP
    /\ chip.log = <<>>

\* ------------------------------------------------------------------------
\* socket(chip, s, protocol, port, flag) with any protocol value
\* ------------------------------------------------------------------------
SocketProtocols == 0 .. 6 \cup {BitOr(SnMR_UDP, SnMR_MULTI)}
SocketFlags == {0, SnMR_MULTI}
SocketPorts == {0, ServerPort}

\* the application calls socket(chip, s, protocol, port, flag)
Socket_open(s, protocol, port, flag) ==
    /\ CallBegins
    /\ LET o == socket(Fresh, local_port, s, protocol, port, flag)
       IN  /\ chip' = o.ch
           /\ local_port' = o.lp
           /\ ret' = Returned("socket", "app", o.ret, s, <<protocol, port, flag>>, <<>>)
    /\ UNCHANGED <<srcport, server_port, sock, werr, udp, pc, cur, narr, nconn>>

NextSocket ==
    \/ \E p \in SocketProtocols, port \in SocketPorts, f \in SocketFlags :
          Socket_open(MAX_SOCK_NUM - 1, p, port, f)
    \/ Socket_listen(MAX_SOCK_NUM - 1)
    \/ PeerConnects(MAX_SOCK_NUM - 1)
    \/ PeerData(MAX_SOCK_NUM - 1)
    \/ ChipCloses(MAX_SOCK_NUM - 1)

SpecSocket == Init /\ [][NextSocket]_vars

\* C36: socket() with protocol TCP, UDP, IPRAW, MACRAW or PPPOE issues
\* CLOSE, clears the interrupt flags, writes the mode register, writes the
\* source port (the port given, or the next value of local_port when it is
\* 0) and issues OPEN, in this order, and returns 1; with any other protocol
\* it returns 0 and makes no register write and no command
C36_SocketOpenSequence ==
    [][(nops' = nops + 1 /\ ret'.op = "socket") =>
         LET s == ret'.s
             protocol == ret'.arg[1]
             port == ret'.arg[2]
             flag == ret'.arg[3]
         IN  IF protocol \in 1 .. 5
             THEN /\ ret'.val = 1
                  /\ chip'.log = <<<<"cmd", s, "CLOSE">>, <<"wr", s, "IR">>,
                                   <<"wr", s, "MR">>, <<"wr", s, "PORT">>,
                                   <<"cmd", s, "OPEN">>>>
                  /\ chip'.ir[s] = {}
                  /\ chip'.rxq[s] = <<>>
                  /\ chip'.mr[s] = protocol + flag
                  /\ local_port' = (IF port = 0 THEN (local_port + 1) % U16 ELSE local_port)
                  /\ chip'.port[s] = (IF port = 0 THEN local_port' ELSE port)
                  /\ chip'.sr[s] \notin {CLOSED, LISTEN, ESTABLISHED}
             ELSE /\ ret'.val = 0
                  /\ chip'.log = <<>>
                  /\ [chip' EXCEPT !.log = <<>>] = [chip EXCEPT !.log = <<>>]
                  /\ local_port' = local_port]_vars

\* socket() has reopened, with an ephemeral port, a socket that held a
\* connection with unread data and pending interrupt flags
C36_Witness ==
    /\ ret.op = "socket"
    /\ ret.val = 1
    /\ ret.arg[2] = 0
    /\ nconn > 0
    /\ narr > 0
    /\ chip.port[ret.s] = local_port
    /\ chip.ir[ret.s] = {}

\* C37: a read, read(buf) or peek on a client with no socket, and a
\* beginPacket, write, endPacket or parsePacket on a UDP object with no
\* socket, reads no byte of any socket and writes no register and issues no
\* command: the access log of the chip is empty and no data is returned
C37_NoSocketNoAccess ==
    (/\ ret.op \in {"read", "readBuf", "peek", "beginPacket", "udp_write", "endPacket",
                    "parsePacket"}
     /\ ret.s = MAX_SOCK_NUM)
        => chip.log = <<>> /\ ret.data = <<>>

\* ------------------------------------------------------------------------
\* flush() of a UDP object whose socket was stopped
\* ------------------------------------------------------------------------
\* the program after server.begin() (socket 0 listens) and
\* udp.begin(UdpPort), which takes socket 1
UdpBegunBeside ==
    LET b == BegunTimes(1)
        s == UdpScan(b.ch)
        o == socket(b.ch, b.lp, s, SnMR_UDP, UdpPort, 0)
    IN  [ch |-> [o.ch EXCEPT !.log = <<>>], lp |-> o.lp, sp |-> b.sp,
         udp |-> [UdpInit EXCEPT !.sock = s, !.port = UdpPort]]

InitFlush ==
    /\ chip = UdpBegunBeside.ch
    /\ local_port = UdpBegunBeside.lp
    /\ server_port = UdpBegunBeside.sp
    /\ udp = UdpBegunBeside.udp
    /\ srcport = SrcPortInit
    /\ sock = [c \in Clients |-> MAX_SOCK_NUM]
    /\ werr = [c \in Clients |-> FALSE]
    /\ pc = "idle"
    /\ cur = NoLocals
    /\ ret = NoCall
    /\ nops = 0
    /\ narr = 0
    /\ nconn = 0

NextFlush ==
    \/ EthernetUDP_parsePacket
    \/ FlushTurn
    \/ EthernetUDP_read
    \/ EthernetUDP_stop
    \/ EthernetUDP_begin(UdpPort)
    \/ \E s \in Sockets, n \in UdpPayloadLens : PeerDatagram(s, n)
    \/ PeerConnects(0)
    \/ PeerData(0)

SpecFlush == InitFlush /\ [][NextFlush]_vars

\* the loop of flush() goes on turning for as long as it can
SpecFlushLive == SpecFlush /\ WF_vars(FlushTurn)

\* C39: a flush() in progress ends, with the remaining-byte count at 0
C39_FlushTerminates ==
    (pc = "udp_flush") ~> (pc = "idle" /\ ret.op = "parsePacket")

\* ------------------------------------------------------------------------
\* Socket ownership over every call that takes or releases a socket
\* ------------------------------------------------------------------------
NextOwners ==
    \/ \E c \in OutClients, ip \in {IP_PEER, IP_ZERO} : EthernetClient_connect(c, ip, 80)
    \/ ConnectWhile
    \/ ConnectIf
    \/ \E c \in Clients : EthernetClient_stop(c)
    \/ StopWhile
    \/ StopIf
    \/ EthernetServer_begin
    \/ EthernetServer_available
    \/ AcceptLoop
    \/ StopIfAccept
    \/ EthernetUDP_begin(UdpPort)
    \/ \E ip \in {IP_MCAST, IP_PEER} : EthernetUDP_beginMulticast(ip, UdpPort)
    \/ EthernetUDP_stop
    \/ \E s \in Sockets : PeerAccepts(s)
    \/ \E s \in Sockets : PeerConnects(s)
    \/ \E s \in Sockets : PeerFin(s)
    \/ \E s \in Sockets : ChipCloses(s)

SpecOwners == Init /\ [][NextOwners]_vars

\* C38: between calls every socket that is not CLOSED is held by a facade
\* or bound in the server-port table, and a connect, begin or beginMulticast
\* that returned failure left its facade without a socket (a client that
\* had none when it called) or on an open UDP socket (the UDP object)
C38_NoSocketLeak ==
    pc = "idle" =>
        /\ \A s \in Sockets :
               chip.sr[s] # "CLOSED" => (Holders(s) # {} \/ server_port[s] # 0)
        /\ (ret.op = "connect" /\ ret.val = 0 /\ ret.arg[3] = MAX_SOCK_NUM)
               => sock[ret.who] = MAX_SOCK_NUM
        /\ (ret.op \in {"udp_begin", "beginMulticast"} /\ ret.val = 0
                /\ udp.sock # MAX_SOCK_NUM)
               => chip.sr[udp.sock] = SR_UDP

====
